---- MODULE Spec2Model ----
(***************************************************************************)
(* A model of the aw-core datastore: the Event record (aw_core/models.py), *)
(* the Bucket facade (aw_datastore/datastore.py) and the two storage       *)
(* backends, MemoryStorage (storages/memory.py) and PeeweeStorage          *)
(* (storages/peewee.py).                                                   *)
(*                                                                         *)
(* Time.  Instants and durations stored in events are integers counting    *)
(* milliseconds (Event truncates every timestamp to the millisecond).      *)
(* Instants handed to the Event constructor and to Bucket.get are integers *)
(* counting microseconds, so that the truncation and the rounding the code *)
(* performs are computed and not assumed.                                  *)
(*                                                                         *)
(* Strings are sequences of one-character strings, so that the substring   *)
(* tests, the suffix stripping and the title splitting of the code are     *)
(* computed as the code computes them.                                     *)
(***************************************************************************)
EXTENDS Integers, Sequences, FiniteSets, TLC

VARIABLES
    backend,          \* which AbstractStorage the Datastore was built with
    now,              \* the wall clock, in ms (datetime.utcnow())
    metadata,         \* MemoryStorage._metadata: bucket id -> its metadata
    db,               \* MemoryStorage.db: bucket id -> list of events
    bucket_keys,      \* PeeweeStorage.bucket_keys: bucket id -> key
    bucketmodel,      \* the BucketModel table: a set of rows
    bucket_instances, \* Datastore.bucket_instances: the ids with a Bucket object
    removed,          \* history: the events the call under way took out of the store
    eventmodel,       \* the EventModel table: a set of rows
    applicationmodel, \* the ApplicationModel table: the set of application names
    call,             \* the last operation called, with its arguments
    ret,              \* what that call returned or raised
    ev,               \* an Event object under construction / mutation
    gate              \* the credentials, the database file PeeweeStorage has open,
                      \* the files on disk, the watcher modules, the settings
                      \* table and the cache entry of the settings

vars == <<backend, now, metadata, db, bucket_keys, bucketmodel, bucket_instances, removed,
          eventmodel, applicationmodel, call, ret, ev, gate>>

\* Python's None, for optional ids and optional instants (which are all >= 0).
None == 0 - 1

-----------------------------------------------------------------------------
(* Strings                                                                 *)

\* str.lower(), on the alphabet the model's strings are written in.
LowerChar(c) ==
    CASE c = "C" -> "c"
      [] c = "E" -> "e"
      [] c = "X" -> "x"
      [] OTHER -> c

Lower(s) == [i \in 1..Len(s) |-> LowerChar(s[i])]

\* Python's `sub in s`.
Contains(sub, s) ==
    \E i \in 1..(Len(s) - Len(sub) + 1) : SubSeq(s, i, i + Len(sub) - 1) = sub

EndsWith(s, suf) ==
    /\ Len(s) >= Len(suf)
    /\ SubSeq(s, Len(s) - Len(suf) + 1, Len(s)) = suf

DotExe == <<".", "e", "x", "e">>

\* re.sub(r'\.exe$', '', s): case-sensitive, one match at the end.
StripExeSuffix(s) ==
    IF EndsWith(s, DotExe) THEN SubSeq(s, 1, Len(s) - Len(DotExe)) ELSE s

\* str.replace('.exe', ''): every occurrence, left to right.
RECURSIVE ReplaceExe(_)
ReplaceExe(s) ==
    IF s = <<>> THEN <<>>
    ELSE IF Len(s) >= 4 /\ SubSeq(s, 1, 4) = DotExe THEN ReplaceExe(SubSeq(s, 5, Len(s)))
    ELSE <<s[1]>> \o ReplaceExe(Tail(s))

\* re.split(r'\s-\s|\s\|\s', s): cut at " - " and at " | ".
IsTitleSep(s, i) ==
    /\ i + 2 <= Len(s)
    /\ s[i] = " "
    /\ s[i + 1] \in {"-", "|"}
    /\ s[i + 2] = " "

RECURSIVE SplitTitleFrom(_, _, _)
SplitTitleFrom(s, i, cur) ==
    IF i > Len(s) THEN <<cur>>
    ELSE IF IsTitleSep(s, i) THEN <<cur>> \o SplitTitleFrom(s, i + 3, <<>>)
    ELSE SplitTitleFrom(s, i + 1, Append(cur, s[i]))

SplitTitle(s) == SplitTitleFrom(s, 1, <<>>)

-----------------------------------------------------------------------------
(* Event (aw_core/models.py)                                               *)

\* dict.get(key, default)
Get(data, key, default) == IF key \in DOMAIN data THEN data[key] ELSE default

\* _timestamp_parse: microsecond = int(microsecond / 1000) * 1000, here in ms.
TimestampParse(us) == us \div 1000

\* Event.duration setter: a timedelta is stored as it is, a real number is a
\* number of seconds; anything else raises TypeError.  No sign test.
DurationAccepted(kind, v) == kind \in {"timedelta", "seconds"}

DurationValue(kind, v) == IF kind = "timedelta" THEN v ELSE v * 1000

\* Event.__init__: the derived attributes app, title, url, application_name.
EventApp(data) == Get(data, "app", <<>>)
EventTitle(data) == Get(data, "title", <<>>)

\* Event.application_name for an event without url: app, its ".exe" suffix
\* stripped when ".exe" occurs in app.lower().
EventApplicationName(data) ==
    LET app_name == EventApp(data)
    IN  IF Contains(DotExe, Lower(app_name)) THEN StripExeSuffix(app_name) ELSE app_name

\* The dict an Event object is: Event(id, timestamp, duration, data).
Event(id, ts_us, kind, v, data) ==
    [id |-> id,
     timestamp |-> TimestampParse(ts_us),
     duration |-> DurationValue(kind, v),
     data |-> data,
     server_sync_status |-> 0]

\* Event.__eq__: (timestamp, duration, data), not the id.
EventEq(a, b) ==
    /\ a.timestamp = b.timestamp
    /\ a.duration = b.duration
    /\ a.data = b.data

-----------------------------------------------------------------------------
(* Inputs                                                                  *)

BucketIds == {"b1", "b2"}

\* data dicts: the tests' {"key": "val"} (neither app nor title), empty app and
\* title, a plain application, and an application whose stored name
\* EventModel.from_event derives from the title.
DataKey == [key |-> <<"v">>]
DataEmpty == [app |-> <<>>, title |-> <<>>]
DataCode == [app |-> <<"c", "o", "d", "e">>, title |-> <<"m">>]
DataCodeExe == [app |-> <<"C", "o", "d", "e", ".", "e", "x", "e">>,
                title |-> <<"m", " ", "-", " ", "p", " ", "-", " ", "V">>]

DataVals == {DataKey, DataEmpty, DataCode, DataCodeExe}

\* instants given to the Event constructor, in microseconds
InputTimestamps == {0, 1000, 2500}

\* durations given to the Event constructor, as timedeltas, in ms
InputDurations == {0, 2}

\* the events a caller inserts one by one: valid, without id
InputEvents ==
    {Event(None, t, "timedelta", d, DataCode) : t \in InputTimestamps, d \in InputDurations}
    \cup {Event(None, 1000, "timedelta", 2, DataCodeExe),
          Event(None, 1000, "timedelta", 2, DataEmpty),
          Event(None, 1000, "timedelta", 0, DataKey)}

\* the wall clock readings: close to the events, and more than 70 s after some
NowVals == {2, 70001}

\* the most events the store is filled with
MaxEvents == 2

\* the longest duration coalescing is let to build up, in ms
MaxDuration == 4

\* the greatest id an event is stored under
MaxRowId == MaxEvents + 1

\* the greatest key a BucketModel row is created with
MaxBucketKey == Cardinality(BucketIds) + 1

\* the lists a caller inserts at once: the tests' events (no app, no title,
\* no duration), in any order, repeated or not
MaxList == 2

ListEvents == {Event(None, t, "timedelta", 0, DataKey) : t \in {0, 1000}}

InputLists == UNION {[1..n -> ListEvents] : n \in 0..MaxList}

\* the arguments of get_events / Bucket.get
Limits == {0 - 1, 0, 1, 2}
QueryTimes == {None, 1, 2}
GetStarttimes == {None, 1000, 2000}
GetEndtimes == {None, 1500}

-----------------------------------------------------------------------------
(* Sequences                                                               *)

Range(s) == {s[i] : i \in 1..Len(s)}

Reverse(s) == [i \in 1..Len(s) |-> s[Len(s) + 1 - i]]

\* s[:n]
Take(s, n) == SubSeq(s, 1, IF n < Len(s) THEN n ELSE Len(s))

\* sorted(events, key=lambda k: k["timestamp"]): stable, ascending.
RECURSIVE InsertByTimestamp(_, _)
InsertByTimestamp(sorted, e) ==
    IF sorted = <<>> THEN <<e>>
    ELSE IF sorted[Len(sorted)].timestamp <= e.timestamp THEN Append(sorted, e)
    ELSE Append(InsertByTimestamp(SubSeq(sorted, 1, Len(sorted) - 1), e), sorted[Len(sorted)])

RECURSIVE SortedByTimestamp(_)
SortedByTimestamp(s) ==
    IF s = <<>> THEN <<>>
    ELSE InsertByTimestamp(SortedByTimestamp(SubSeq(s, 1, Len(s) - 1)), s[Len(s)])

Max(S) == CHOOSE x \in S : \A y \in S : y <= x

-----------------------------------------------------------------------------
(* MemoryStorage (aw_datastore/storages/memory.py)                         *)

\* sorted(events, key=lambda k: k["timestamp"])[::-1]
MemSortedMut(events) == SortedByTimestamp(events)
MemSorted(events) == Reverse(SortedByTimestamp(events))

\* the date filter of MemoryStorage.get_events
MemFilter(events, starttime, endtime) ==
    LET byStart == IF starttime # None
                   THEN SelectSeq(events, LAMBDA e : starttime <= e.timestamp + e.duration)
                   ELSE events
    IN  IF endtime # None
        THEN SelectSeq(byStart, LAMBDA e : e.timestamp <= endtime)
        ELSE byStart

\* the limit of MemoryStorage.get_events: 0 is nothing, negative is sys.maxsize
MemLimitMut(events, limit) ==
    IF limit <= 0 THEN <<>> ELSE Take(events, limit)
MemLimit(events, limit) ==
    IF limit = 0 THEN <<>>
    ELSE IF limit < 0 THEN events
    ELSE Take(events, limit)

MemGetEvents(bucket, limit, starttime, endtime) ==
    MemLimit(MemFilter(MemSorted(db[bucket]), starttime, endtime), limit)

MemGetEventcount(bucket, starttime, endtime) ==
    Len(SelectSeq(db[bucket],
                  LAMBDA e : /\ (starttime = None \/ starttime <= e.timestamp)
                             /\ (endtime = None \/ e.timestamp <= endtime)))

\* MemoryStorage.replace: every event of the bucket with that id, last to first,
\* is replaced by a copy of `event` carrying the id.
MemReplace(events, event_id, event) ==
    [i \in 1..Len(events) |->
        IF events[i].id = event_id THEN [event EXCEPT !.id = event_id] ELSE events[i]]

\* MemoryStorage.insert_one: the bucket's list after the call
MemInsertOneMut(events, event) ==
    IF event.id # None
    THEN MemReplace(events, event.id, event)
    ELSE Append(events, [event EXCEPT !.id = Len(events)])
MemInsertOne(events, event) ==
    IF event.id # None
    THEN MemReplace(events, event.id, event)
    ELSE Append(events,
                [event EXCEPT !.id = IF events # <<>>
                                     THEN Max({IF e.id = None THEN 0 ELSE e.id : e \in Range(events)}) + 1
                                     ELSE 0])

\* ... and the event it returns
MemInsertOneReturn(events, event) ==
    IF event.id # None THEN event ELSE MemInsertOne(events, event)[Len(events) + 1]

\* AbstractStorage.insert_many: insert_one for each event, in order
RECURSIVE MemInsertMany(_, _)
MemInsertMany(events, new) ==
    IF new = <<>> THEN events
    ELSE MemInsertMany(MemInsertOne(events, new[1]), Tail(new))

RECURSIVE SumLen(_)
SumLen(S) ==
    IF S = {} THEN 0
    ELSE LET b == CHOOSE x \in S : TRUE IN Len(db[b]) + SumLen(S \ {b})

\* the number of events the memory store holds
MemEventTotal == SumLen(DOMAIN db)

-----------------------------------------------------------------------------
(* PeeweeStorage (aw_datastore/storages/peewee.py)                         *)

\* "We'll assume events aren't >24h": the pruning clause of _where_range, in ms
DayMs == 86400000

\* the window of _get_last_event_by_app_title_pulsetime, in ms
PulsetimeMs == 70000

Afk == <<"a", "f", "k">>
Code == <<"C", "o", "d", "e">>
Explorer == <<"e", "x", "p", "l", "o", "r", "e", "r">>
ApplicationFrameHost ==
    <<"A", "p", "p", "l", "i", "c", "a", "t", "i", "o", "n",
      "F", "r", "a", "m", "e", "H", "o", "s", "t">>

\* str.strip(), for spaces
RECURSIVE Strip(_)
Strip(s) ==
    IF s = <<>> THEN s
    ELSE IF s[1] = " " THEN Strip(Tail(s))
    ELSE IF s[Len(s)] = " " THEN Strip(SubSeq(s, 1, Len(s) - 1))
    ELSE s

\* EventModel.from_event: the application_name column of an event without url.
\* (The last rewrite of from_event, for names containing "localhost", "10" or
\* "14", is not reached by the names modelled here.)
FromEventAppName(data) ==
    LET app0 == Get(data, "app", <<>>)
        app1 == IF Contains(DotExe, Lower(app0)) THEN StripExeSuffix(app0) ELSE app0
        app2 == IF Contains(DotExe, Lower(app1)) THEN StripExeSuffix(app1) ELSE app1
        titles == SplitTitle(EventTitle(data))
        app3 == IF Contains(ApplicationFrameHost, app2) \/ Contains(Code, app2)
                THEN (IF Len(titles) > 1 THEN titles[Len(titles) - 1] ELSE titles[Len(titles)])
                ELSE app2
    IN  IF Contains(Explorer, app3) THEN EventTitle(data) ELSE app3

\* ApplicationModel.from_application_details, called by from_event with
\* {"app_name": app, "url": ""}: nothing for AFK, else the application named
\* app.replace('.exe', '').strip() exists afterwards (created, or found again
\* after the IntegrityError of the unique name).
FromApplicationDetails(apps, data) ==
    LET app_name == Get(data, "app", <<>>)
    IN  IF Lower(app_name) = Afk THEN apps
        ELSE apps \cup {Strip(ReplaceExe(app_name))}

\* EventModel.from_event: the row built from an event (its id not yet assigned)
FromEvent(bucket_key, event) ==
    [id |-> event.id,
     bucket |-> bucket_key,
     timestamp |-> event.timestamp,
     duration |-> event.duration,
     datastr |-> event.data,
     app |-> Get(event.data, "app", <<>>),
     title |-> event.data["title"],
     url |-> <<>>,
     application_name |-> FromEventAppName(event.data),
     server_sync_status |-> 0]

\* EventModel.json and Event(**json): the event a row is read back as
RowEvent(r) ==
    [id |-> r.id,
     timestamp |-> r.timestamp,
     duration |-> r.duration,
     data |-> r.datastr,
     server_sync_status |-> r.server_sync_status]

\* the server_sync_status that replace, replace_last and the coalescing update
\* of insert_one write: `server_sync_status = 0`
MutatedStatusMut == 0 + 1
MutatedStatus == 0

\* AutoField: the id SQLite gives a new row
NewRowId(rows) == IF rows = {} THEN 1 ELSE Max({r.id : r \in rows}) + 1

\* _get_last_event_by_app_title_pulsetime: the rows that .first() may return,
\* the newest of those with this application_name and title whose timestamp is
\* not older than 70 s before the wall clock.  No bucket is asked for.
LastEventByAppTitlePulsetime(rows, app, title, clock) ==
    LET found == {r \in rows : /\ r.application_name = app
                               /\ r.title = title
                               /\ r.timestamp >= clock - PulsetimeMs}
    IN  {r \in found : \A o \in found : o.timestamp <= r.timestamp}

\* _where_range.  `tie` is the outcome of the clause
\*   starttime <= dt_plus_duration(timestamp, duration)
\* when the two instants are equal: SQLite compares the two as text, the bound
\* with the fraction Python prints and the sum with the three digits strftime
\* prints, so the order of equal instants depends on the bound's microseconds.
WhereRange(r, starttime, endtime, tie) ==
    /\ starttime # None =>
          /\ starttime - DayMs <= r.timestamp
          /\ \/ starttime < r.timestamp + r.duration
             \/ starttime = r.timestamp + r.duration /\ tie
    /\ endtime # None => r.timestamp <= endtime

\* ORDER BY timestamp DESC: every order of the rows with the timestamps
\* descending (SQLite leaves the order of equal timestamps open)
OrderByTimestampDesc(rows) ==
    {s \in [1..Cardinality(rows) -> rows] :
        /\ \A i, j \in DOMAIN s : i # j => s[i] # s[j]
        /\ \A i, j \in DOMAIN s : i < j => s[i].timestamp >= s[j].timestamp}

\* LIMIT n: a negative limit is no limit in SQLite
SqlLimit(s, limit) == IF limit < 0 THEN s ELSE Take(s, limit)

\* the trimming loop of PeeweeStorage.get_events
Trim(e, starttime, endtime) ==
    LET e1 == IF starttime # None /\ e.timestamp < starttime
              THEN [e EXCEPT !.timestamp = starttime,
                             !.duration = (e.timestamp + e.duration) - starttime]
              ELSE e
    IN  IF endtime # None /\ e1.timestamp + e1.duration > endtime
        THEN [e1 EXCEPT !.duration = endtime - e1.timestamp]
        ELSE e1

\* PeeweeStorage.get_events: the lists the call may return
PeeweeGetEvents(bucket_id, limit, starttime, endtime) ==
    IF limit = 0 THEN {<<>>}
    ELSE UNION {
        LET matching == {r \in eventmodel : /\ r.bucket = bucket_keys[bucket_id]
                                            /\ WhereRange(r, starttime, endtime, tie)}
        IN  {[i \in DOMAIN SqlLimit(s, limit) |->
                 Trim(RowEvent(SqlLimit(s, limit)[i]), starttime, endtime)] :
             s \in OrderByTimestampDesc(matching)}
        : tie \in BOOLEAN}

\* PeeweeStorage.get_eventcount: the counts the call may return
PeeweeGetEventcount(bucket_id, starttime, endtime) ==
    {Cardinality({r \in eventmodel : /\ r.bucket = bucket_keys[bucket_id]
                                     /\ WhereRange(r, starttime, endtime, tie)}) :
     tie \in BOOLEAN}

-----------------------------------------------------------------------------
(* The datastore: Datastore, Bucket and the storage behind them            *)

\* The caller makes one call at a time: `call` and `ret` hold the call made and
\* its outcome until the caller has taken it (Done), and the next call starts
\* from there.
\* name=None: no name is given
NoName == ""

TestHost == <<"t", "e", "s", "t">>

\* the metadata MemoryStorage keeps of a bucket: name and hostname (type, client,
\* created and data are written and read the same way)
NoMetadata == [name |-> NoName, hostname |-> TestHost]

lifecycleVars == <<bucketmodel, bucket_instances, removed>>

NoEvent == [id |-> None, timestamp |-> 0, duration |-> 0, data |-> DataKey,
            server_sync_status |-> 0]

Call(op, bucket, limit, starttime, endtime, events) ==
    [op |-> op, bucket |-> bucket, limit |-> limit, starttime |-> starttime,
     endtime |-> endtime, events |-> events]

Return(events) == [exc |-> "", events |-> events]
Raise(exc) == [exc |-> exc, events |-> <<>>]

\* Datastore.buckets(): the ids of the buckets the storage holds
Buckets == IF backend = "memory" THEN DOMAIN db ELSE DOMAIN bucket_keys

\* the events the store holds, in all buckets
EventTotal == IF backend = "memory" THEN MemEventTotal ELSE Cardinality(eventmodel)

\* get_eventcount(bucket) without a window
EventCount(bucket) ==
    IF backend = "memory" THEN MemGetEventcount(bucket, None, None)
    ELSE Max(PeeweeGetEventcount(bucket, None, None))

Idle == Call("", "", None, None, None, <<>>)

-----------------------------------------------------------------------------
(* Credentials and the database file (PeeweeStorage.init_db)               *)

\* a value the credentials do not hold: dict.get(...) is None
NoKey == ""

\* the keys Fernet encrypts and decrypts with
UserKeys == {"k1", "k2"}

\* the passphrase of the database
Uuid == "uuid"

\* encrypt_uuid(uuid_str, key): a token only the same key decrypts
EncryptUuid(uuid_str, key) == [key |-> key, uuid |-> uuid_str]

NoDbKey == EncryptUuid(NoKey, NoKey)

\* decrypt_uuid(encrypted_uuid, key): the uuid, or None when Fernet refuses
DecryptUuidMut(encrypted_uuid, key) == encrypted_uuid.uuid
DecryptUuid(encrypted_uuid, key) ==
    IF encrypted_uuid.key = key /\ key # NoKey THEN encrypted_uuid.uuid ELSE NoKey

\* the JSON the keyring keeps under "SD_KEYS", and what the cache keeps of it
Credentials(db_key, user_key, email) ==
    [stored |-> TRUE, encrypted_db_key |-> db_key, user_key |-> user_key, email |-> email]

\* no credentials: get_password / credentials_cache.get returned None
NoCredentials ==
    [stored |-> FALSE, encrypted_db_key |-> NoDbKey, user_key |-> NoKey, email |-> NoKey]

UserEmail == "a@x"

\* the credentials a login leaves in the keyring: complete, with a user_key
\* that does not decrypt the db key, or without the db key
LoginCredentials ==
    {Credentials(EncryptUuid(Uuid, "k1"), k, UserEmail) : k \in UserKeys}
    \cup {Credentials(NoDbKey, "k1", UserEmail)}

LATEST_VERSION == 2

\* "peewee-sqlite" + suffix + f".v{LATEST_VERSION}" + ".db"
DbFileName(suffix) == <<"peewee-sqlite">> \o suffix \o <<".v", ToString(LATEST_VERSION), ".db">>

\* testing=True, the default of init_db
TestingFile == DbFileName(<<"-testing">>)

UserFile(email) == DbFileName(<<"-", email>>)

\* no database was opened: db_proxy is not initialized
NoFile == <<>>

\* json.dumps(value) and json.loads(text): the text of a value, and the
\* value a text stands for
JsonDumps(value) == <<"json", value>>
JsonLoads(text) == text[2]

\* the SettingsModel table without rows, as a map from code to value text
NoSettings == [code \in {} |-> <<>>]

\* SettingsModel.get_or_create(code=code, defaults={'value': text}): the
\* table afterwards
GetOrCreate(settings, code, text) ==
    IF code \in DOMAIN settings THEN settings ELSE (code :> text) @@ settings

\* ensure_default_settings() and setup_weekday_settings(): the defaults are
\* created where the table has no row for the code
EnsureDefaultSettings(settings) ==
    GetOrCreate(GetOrCreate(GetOrCreate(GetOrCreate(settings,
        "timeformat", JsonDumps("12")),
        "schedule", JsonDumps("false")),
        "launch", JsonDumps("true")),
        "weekdays_schedule", JsonDumps("never"))

\* retrieve_all_settings(): the value of every row but "profilePic"
RetrieveAllSettings(settings) ==
    [code \in DOMAIN settings \ {"profilePic"} |-> JsonLoads(settings[code])]

\* db_cache.retrieve(settings_cache_key): None, or the map stored
NoCache == [stored |-> FALSE, settings |-> NoSettings]
Cached(all_settings) == [stored |-> TRUE, settings |-> all_settings]

\* PeeweeStorage.save_settings(code, value_dict): the table and the cache
\* entry afterwards; the cache entry is stored only when the row existed
SaveSettingsTable(settings, code, value) ==
    (code :> JsonDumps(value)) @@ settings
SaveSettingsCache(settings, cache, code, value) ==
    IF code \in DOMAIN settings
    THEN Cached(RetrieveAllSettings(SaveSettingsTable(settings, code, value)))
    ELSE cache

\* the settings init_db leaves: the defaults, the cache entry stored, then
\* save_settings("launch", check_startup_status())
OpenedSettings(settings, launch) ==
    SaveSettingsTable(EnsureDefaultSettings(settings), "launch", launch)
OpenedCache(settings, launch) ==
    SaveSettingsCache(EnsureDefaultSettings(settings),
                      Cached(RetrieveAllSettings(EnsureDefaultSettings(settings))),
                      "launch", launch)

\* the store of a user who is logged in, after PeeweeStorage.__init__
GateOpen ==
    LET c == Credentials(EncryptUuid(Uuid, "k1"), "k1", UserEmail)
    IN  [keyring |-> c, ttim |-> c, sundial |-> c,
         opened |-> UserFile(UserEmail), files |-> {UserFile(UserEmail)},
         modules |-> TRUE, constructed |-> TRUE, ready |-> TRUE,
         settings |-> OpenedSettings(NoSettings, "false"),
         settings_cache |-> OpenedCache(NoSettings, "false")]

-----------------------------------------------------------------------------

\* the store holds nothing yet
InitStore ==
    /\ metadata = [b \in {} |-> NoMetadata]
    /\ db = [b \in {} |-> <<>>]
    /\ bucket_keys = [b \in {} |-> 0]
    /\ bucketmodel = {}
    /\ bucket_instances = {}
    /\ removed = {}
    /\ eventmodel = {}
    /\ applicationmodel = {}
    /\ call = Idle
    /\ ret = Return(<<>>)
    /\ ev = NoEvent

Init ==
    /\ InitStore
    /\ gate = GateOpen
    /\ backend \in {"memory", "peewee"}
    /\ now \in NowVals

\* the wall clock advances
Tick ==
    /\ call = Idle
    /\ \E t \in NowVals : t > now /\ now' = t
    /\ call' = Call("tick", "", None, None, None, <<>>)
    /\ ret' = Return(<<>>)
    /\ UNCHANGED <<gate, backend, metadata, db, bucket_keys, eventmodel, applicationmodel, ev>>
    /\ UNCHANGED lifecycleVars

\* PeeweeStorage.update_bucket_keys: {bucket.id: bucket.key for bucket in BucketModel}
UpdateBucketKeys(rows) ==
    [b \in {r.id : r \in rows} |-> (CHOOSE r \in rows : r.id = b).key]

\* the key SQLite gives a new BucketModel row (INTEGER PRIMARY KEY)
NewBucketKey(rows) == IF rows = {} THEN 1 ELSE Max({r.key : r \in rows}) + 1

\* Datastore.create_bucket(bucket_id, type, client, hostname, created, name):
\* storage_strategy.create_bucket, then self[bucket_id].  MemoryStorage writes
\* the metadata and sets db[bucket_id] = [] whether or not the id was there;
\* BucketModel.create fails on the unique id of a bucket that exists.
CreateBucketAs(b, hostname, name) ==
    /\ call = Idle
    /\ NewBucketKey(bucketmodel) <= MaxBucketKey
    /\ call' = Call("create_bucket", b, None, None, None, <<>>)
    /\ IF backend = "memory"
       THEN /\ metadata' = (b :> [name |-> IF name = NoName THEN b ELSE name,
                                  hostname |-> hostname]) @@ metadata
            /\ removed' = IF b \in DOMAIN db THEN Range(db[b]) ELSE {}
            /\ db' = (b :> <<>>) @@ db
            /\ bucket_instances' = bucket_instances \cup {b}
            /\ ret' = Return(<<>>)
            /\ UNCHANGED <<bucket_keys, bucketmodel>>
       ELSE /\ IF \E r \in bucketmodel : r.id = b
               THEN /\ ret' = Raise("IntegrityError")
                    /\ UNCHANGED <<bucket_keys, bucketmodel, bucket_instances>>
               ELSE /\ bucketmodel' = bucketmodel \cup
                          {[key |-> NewBucketKey(bucketmodel), id |-> b,
                            name |-> name, hostname |-> hostname]}
                    /\ bucket_keys' = UpdateBucketKeys(bucketmodel')
                    /\ bucket_instances' = bucket_instances \cup {b}
                    /\ ret' = Return(<<>>)
            /\ UNCHANGED <<metadata, db, removed>>
    /\ UNCHANGED <<gate, backend, now, eventmodel, applicationmodel, ev>>

\* create_bucket as the tests call it: hostname="test", no name
CreateBucket(b) == CreateBucketAs(b, TestHost, NoName)

\* PeeweeStorage.insert_one(bucket_id, event)
PeeweeInsertOne(b, event) ==
    IF "app" \notin DOMAIN event.data \/ "title" \notin DOMAIN event.data
    THEN \* event.data['app'], event.data['title']
         /\ ret' = Raise("KeyError")
         /\ UNCHANGED <<eventmodel, applicationmodel>>
    ELSE IF event.data["title"] # <<>> /\ event.data["app"] # <<>>
    THEN LET e == FromEvent(bucket_keys[b], event)
             found == LastEventByAppTitlePulsetime(
                          eventmodel, EventApplicationName(event.data),
                          EventTitle(event.data), now)
         IN  /\ applicationmodel' = FromApplicationDetails(applicationmodel, event.data)
             /\ IF ~Contains(Afk, EventApplicationName(event.data)) /\ found # {}
                THEN \E is_exist \in found :
                        LET saved == [is_exist EXCEPT
                                         !.duration = is_exist.duration + e.duration,
                                         !.server_sync_status = MutatedStatus]
                        IN  /\ eventmodel' = (eventmodel \ {is_exist}) \cup {saved}
                            /\ ret' = Return(<<[event EXCEPT !.id = saved.id,
                                                             !.duration = saved.duration]>>)
                ELSE LET saved == [e EXCEPT !.id = NewRowId(eventmodel),
                                            !.server_sync_status = 0]
                     IN  /\ eventmodel' = eventmodel \cup {saved}
                         /\ ret' = Return(<<[event EXCEPT !.id = saved.id]>>)
    ELSE /\ ret' = Return(<<event>>)
         /\ UNCHANGED <<eventmodel, applicationmodel>>

\* the id the store gives the next event inserted into bucket b
NewEventId(b) ==
    IF backend = "memory" THEN MemInsertOneReturn(db[b], NoEvent).id
    ELSE NewRowId(eventmodel)

\* Bucket.insert(event) with a single Event: storage_strategy.insert_one;
\* no stored duration is let to grow beyond max_duration
BucketInsertWithin(b, event, max_duration) ==
    /\ call = Idle
    /\ b \in Buckets
    /\ EventTotal < MaxEvents
    /\ NewEventId(b) <= MaxRowId
    /\ \A r \in eventmodel : r.duration + event.duration <= max_duration
    /\ call' = Call("insert", b, None, None, None, <<event>>)
    /\ IF backend = "memory"
       THEN /\ db' = [db EXCEPT ![b] = MemInsertOne(db[b], event)]
            /\ ret' = Return(<<MemInsertOneReturn(db[b], event)>>)
            /\ UNCHANGED <<eventmodel, applicationmodel>>
       ELSE /\ PeeweeInsertOne(b, event)
            /\ UNCHANGED db
    /\ UNCHANGED <<gate, backend, now, metadata, bucket_keys, ev>>
    /\ UNCHANGED lifecycleVars

BucketInsert(b, event) == BucketInsertWithin(b, event, MaxDuration)

\* Bucket.insert(events) with a list: the statement
\*   events.data = peewee.decrypt(events.data)
\* comes first, and a list has no attribute `data`.
BucketInsertList(b, events) ==
    /\ call = Idle
    /\ b \in Buckets
    /\ call' = Call("insert_list", b, None, None, None, events)
    /\ ret' = Raise("AttributeError")
    /\ UNCHANGED <<gate, backend, now, metadata, db, bucket_keys, eventmodel, applicationmodel, ev>>
    /\ UNCHANGED lifecycleVars

\* storage_strategy.insert_many(bucket_id, events), of events without id.
\* MemoryStorage inherits AbstractStorage.insert_many.  PeeweeStorage builds
\* rows of (bucket, timestamp, duration, datastr) only and hands them to
\* EventModel.insert_many: the columns app and application_name are NOT NULL
\* and have no default, so a non-empty chunk is refused.
InsertMany(b, events) ==
    /\ call = Idle
    /\ b \in Buckets
    /\ EventTotal + Len(events) <= MaxEvents
    /\ call' = Call("insert_many", b, None, None, None, events)
    /\ IF backend = "memory"
       THEN /\ db' = [db EXCEPT ![b] = MemInsertMany(db[b], events)]
            /\ ret' = Return(<<>>)
       ELSE /\ ret' = IF events = <<>> THEN Return(<<>>) ELSE Raise("IntegrityError")
            /\ UNCHANGED db
    /\ UNCHANGED <<gate, backend, now, metadata, bucket_keys, eventmodel, applicationmodel, ev>>
    /\ UNCHANGED lifecycleVars

\* storage_strategy.get_events(bucket, limit, starttime, endtime), in ms
StorageGetEvents(b, limit, starttime, endtime) ==
    IF backend = "memory"
    THEN {MemGetEvents(b, limit, starttime, endtime)}
    ELSE PeeweeGetEvents(b, limit, starttime, endtime)

GetEvents(b, limit, starttime, endtime) ==
    /\ call = Idle
    /\ b \in Buckets
    /\ call' = Call("get_events", b, limit, starttime, endtime, <<>>)
    /\ \E events \in StorageGetEvents(b, limit, starttime, endtime) :
          ret' = Return(events)
    /\ UNCHANGED <<gate, backend, now, metadata, db, bucket_keys, eventmodel, applicationmodel, ev>>
    /\ UNCHANGED lifecycleVars

\* Bucket.get rounds starttime down to the millisecond ...
GetStarttime(us) == IF us = None THEN None ELSE us \div 1000

\* ... and endtime up to the next one: milliseconds = 1 + int(microsecond / 1000)
GetEndtime(us) == IF us = None THEN None ELSE us \div 1000 + 1

\* Bucket.get(limit, starttime, endtime), the instants in microseconds
BucketGet(b, limit, starttime, endtime) ==
    /\ call = Idle
    /\ b \in Buckets
    /\ call' = Call("get", b, limit, starttime, endtime, <<>>)
    /\ \E events \in StorageGetEvents(b, limit, GetStarttime(starttime), GetEndtime(endtime)) :
          ret' = Return(events)
    /\ UNCHANGED <<gate, backend, now, metadata, db, bucket_keys, eventmodel, applicationmodel, ev>>
    /\ UNCHANGED lifecycleVars

\* the caller has taken the outcome of its call
Done ==
    /\ call # Idle
    /\ call' = Idle
    /\ ret' = Return(<<>>)
    /\ removed' = {}
    /\ UNCHANGED <<gate, backend, now, metadata, db, bucket_keys, eventmodel, applicationmodel, ev>>
    /\ UNCHANGED <<bucketmodel, bucket_instances>>

\* the events a bucket holds
BucketEvents(b) ==
    IF backend = "memory" THEN Range(db[b])
    ELSE {RowEvent(r) : r \in {x \in eventmodel : x.bucket = bucket_keys[b]}}

Next ==
    \/ Done
    \/ /\ call = Idle
       /\ \/ Tick
          \/ \E b \in BucketIds : CreateBucket(b)
          \/ \E b \in BucketIds, event \in InputEvents : BucketInsert(b, event)
          \/ \E b \in BucketIds, events \in InputLists : BucketInsertList(b, events)
          \/ \E b \in BucketIds, events \in InputLists : InsertMany(b, events)
          \/ \E b \in BucketIds, limit \in Limits, s \in QueryTimes, e \in QueryTimes :
                GetEvents(b, limit, s, e)
          \/ \E b \in BucketIds, limit \in Limits, s \in GetStarttimes, e \in GetEndtimes :
                BucketGet(b, limit, s, e)

Spec == Init /\ [][Next]_vars

-----------------------------------------------------------------------------
(* Event objects on their own: construction and the duration setter        *)

\* the durations given to Event(...) and to Event.duration: timedeltas in ms,
\* numbers of seconds, and a value of another type
EventDurations ==
    {<<"timedelta", v>> : v \in {0 - 2, 0, 2}}
    \cup {<<"seconds", v>> : v \in {0 - 1, 0, 1}}
    \cup {<<"str", 0>>}

EventCall(op, kind, value) == [op |-> op, kind |-> kind, value |-> value]

\* Event(timestamp=..., duration=..., data=...)
EventInit(ts_us, kind, v, data) ==
    /\ call' = EventCall("Event", kind, v)
    /\ IF DurationAccepted(kind, v)
       THEN /\ ev' = Event(None, ts_us, kind, v, data)
            /\ ret' = Return(<<>>)
       ELSE /\ ret' = Raise("TypeError")
            /\ UNCHANGED ev
    /\ UNCHANGED <<gate, backend, now, metadata, db, bucket_keys, eventmodel, applicationmodel>>
    /\ UNCHANGED lifecycleVars

\* event.duration = ...
SetDuration(kind, v) ==
    /\ call' = EventCall("duration", kind, v)
    /\ IF DurationAccepted(kind, v)
       THEN /\ ev' = [ev EXCEPT !.duration = DurationValue(kind, v)]
            /\ ret' = Return(<<>>)
       ELSE /\ ret' = Raise("TypeError")
            /\ UNCHANGED ev
    /\ UNCHANGED <<gate, backend, now, metadata, db, bucket_keys, eventmodel, applicationmodel>>
    /\ UNCHANGED lifecycleVars

NextEvent ==
    \/ \E t \in InputTimestamps, d \in EventDurations, data \in DataVals :
          EventInit(t, d[1], d[2], data)
    \/ \E d \in EventDurations : SetDuration(d[1], d[2])

SpecEvent == Init /\ [][NextEvent]_vars

-----------------------------------------------------------------------------
(* The life of buckets and events: update, delete, replace, sync status    *)

\* the events a caller inserts or replaces with
LifecycleEvents ==
    {Event(None, 0, "timedelta", 0, DataCode),
     Event(None, 1000, "timedelta", 2, DataCodeExe)}

\* the event ids a caller names: MemoryStorage counts from 0, SQLite from 1
EventIds == {0, 1}

\* the names update_bucket is given
BucketNames == {"n"}

\* the statuses the sync layer writes, and the lists of ids it writes them to
SyncStatuses == {1}
SyncIds == {{1}, {1, 2}}

\* `if bucket_id in self._metadata` / `if bucket_id in self.bucket_keys`
BucketKnownMut(b) == TRUE
BucketKnown(b) ==
    IF backend = "memory" THEN b \in DOMAIN metadata ELSE b \in DOMAIN bucket_keys

\* the function f without the key b: del f[b]
Del(f, b) == [x \in DOMAIN f \ {b} |-> f[x]]

\* Datastore.__getitem__(bucket_id)
GetItemCachedMut(b) == b \in Buckets
GetItemCached(b) == b \in bucket_instances

GetItem(b) ==
    /\ call = Idle
    /\ call' = Call("getitem", b, None, None, None, <<>>)
    /\ IF GetItemCached(b)
       THEN /\ ret' = Return(<<>>)
            /\ UNCHANGED bucket_instances
       ELSE IF b \in Buckets
       THEN /\ bucket_instances' = bucket_instances \cup {b}
            /\ ret' = Return(<<>>)
       ELSE /\ ret' = Raise("KeyError")
            /\ UNCHANGED bucket_instances
    /\ UNCHANGED <<gate, backend, now, metadata, db, bucket_keys, bucketmodel, removed,
                   eventmodel, applicationmodel, ev>>

\* Datastore.update_bucket(bucket_id, name=name): storage_strategy.update_bucket.
\* MemoryStorage writes a name that is truthy, PeeweeStorage one that is not None.
UpdateBucket(b, name) ==
    /\ call = Idle
    /\ call' = Call("update_bucket", b, None, None, None, <<>>)
    /\ IF ~BucketKnown(b)
       THEN /\ ret' = Raise("Exception")
            /\ UNCHANGED <<metadata, bucketmodel>>
       ELSE /\ ret' = Return(<<>>)
            /\ IF backend = "memory"
               THEN /\ metadata' = IF name # NoName /\ b \in DOMAIN metadata
                                   THEN [metadata EXCEPT ![b].name = name]
                                   ELSE metadata
                    /\ UNCHANGED bucketmodel
               ELSE /\ bucketmodel' =
                          {IF r.id = b /\ name # NoName THEN [r EXCEPT !.name = name] ELSE r :
                           r \in bucketmodel}
                    /\ UNCHANGED metadata
    /\ UNCHANGED <<gate, backend, now, db, bucket_keys, bucket_instances, removed,
                   eventmodel, applicationmodel, ev>>

\* the bucket_instances after `del self.bucket_instances[bucket_id]`
UncacheMut(b) == bucket_instances
Uncache(b) == bucket_instances \ {b}

\* the rows PeeweeStorage.delete_bucket leaves in EventModel
DeleteBucketEventsMut(rows, key) == rows
DeleteBucketEvents(rows, key) == {r \in rows : r.bucket # key}

\* Datastore.delete_bucket(bucket_id): the Bucket object is dropped, then
\* storage_strategy.delete_bucket removes the bucket and its events.
DeleteBucket(b) ==
    /\ call = Idle
    /\ call' = Call("delete_bucket", b, None, None, None, <<>>)
    /\ bucket_instances' = Uncache(b)
    /\ IF ~BucketKnown(b)
       THEN /\ ret' = Raise("Exception")
            /\ removed' = {}
            /\ UNCHANGED <<metadata, db, bucket_keys, bucketmodel, eventmodel>>
       ELSE /\ ret' = Return(<<>>)
            /\ IF backend = "memory"
               THEN /\ removed' = IF b \in DOMAIN db THEN Range(db[b]) ELSE {}
                    /\ db' = Del(db, b)
                    /\ metadata' = Del(metadata, b)
                    /\ UNCHANGED <<bucket_keys, bucketmodel, eventmodel>>
               ELSE /\ b \in DOMAIN bucket_keys
                    /\ eventmodel' = DeleteBucketEvents(eventmodel, bucket_keys[b])
                    /\ removed' = {RowEvent(r) : r \in eventmodel \ eventmodel'}
                    /\ bucketmodel' = {r \in bucketmodel : r.key # bucket_keys[b]}
                    /\ bucket_keys' = UpdateBucketKeys(bucketmodel')
                    /\ UNCHANGED <<metadata, db>>
    /\ UNCHANGED <<gate, backend, now, applicationmodel, ev>>

\* storage_strategy.get_metadata(bucket_id), as Bucket.metadata() calls it
GetMetadata(b) ==
    /\ call = Idle
    /\ call' = Call("get_metadata", b, None, None, None, <<>>)
    /\ ret' = IF BucketKnown(b) THEN Return(<<>>) ELSE Raise("Exception")
    /\ UNCHANGED <<gate, backend, now, metadata, db, bucket_keys, eventmodel, applicationmodel, ev>>
    /\ UNCHANGED lifecycleVars

\* a call that names an event: Bucket.delete(event_id), Bucket.replace(event_id, event)
EventOpCall(op, bucket, id, events) ==
    [op |-> op, bucket |-> bucket, id |-> id, events |-> events]

\* MemoryStorage.delete: the last event of the list with that id is popped
MemDelete(events, event_id) ==
    LET found == {i \in DOMAIN events : events[i].id = event_id}
    IN  IF found = {} THEN events
        ELSE SubSeq(events, 1, Max(found) - 1) \o SubSeq(events, Max(found) + 1, Len(events))

\* PeeweeStorage.delete: DELETE ... WHERE id = event_id AND bucket = key
PeeweeDelete(rows, key, event_id) == {r \in rows : ~(r.id = event_id /\ r.bucket = key)}

\* Bucket.delete(event_id)
Delete(b, event_id) ==
    /\ call = Idle
    /\ call' = EventOpCall("delete", b, event_id, <<>>)
    /\ IF b \notin Buckets
       THEN \* self.db[bucket_id], self.bucket_keys[bucket_id]
            /\ ret' = Raise("KeyError")
            /\ removed' = {}
            /\ UNCHANGED <<db, eventmodel>>
       ELSE /\ ret' = Return(<<>>)
            /\ IF backend = "memory"
               THEN /\ db' = [db EXCEPT ![b] = MemDelete(db[b], event_id)]
                    /\ removed' = {e \in Range(db[b]) : e.id = event_id /\ Len(db'[b]) < Len(db[b])}
                    /\ UNCHANGED eventmodel
               ELSE /\ eventmodel' = PeeweeDelete(eventmodel, bucket_keys[b], event_id)
                    /\ removed' = {RowEvent(r) : r \in eventmodel \ eventmodel'}
                    /\ UNCHANGED db
    /\ UNCHANGED <<gate, backend, now, metadata, bucket_keys, bucketmodel, bucket_instances,
                   applicationmodel, ev>>

\* PeeweeStorage._get_event: the row with that id in that bucket, if any
GetEventRow(rows, key, event_id) == {r \in rows : r.id = event_id /\ r.bucket = key}

\* PeeweeStorage.replace: timestamp, duration and datastr are overwritten
PeeweeReplaceRow(e, event) ==
    [e EXCEPT !.timestamp = event.timestamp,
              !.duration = event.duration,
              !.datastr = event.data,
              !.server_sync_status = MutatedStatus]

\* Bucket.replace(event_id, event)
Replace(b, event_id, event) ==
    /\ call = Idle
    /\ call' = EventOpCall("replace", b, event_id, <<event>>)
    /\ IF b \notin Buckets
       THEN /\ ret' = Raise("KeyError")
            /\ UNCHANGED <<db, eventmodel>>
       ELSE IF backend = "memory"
       THEN /\ db' = [db EXCEPT ![b] = MemReplace(db[b], event_id, event)]
            /\ ret' = Return(<<>>)
            /\ UNCHANGED eventmodel
       ELSE /\ IF GetEventRow(eventmodel, bucket_keys[b], event_id) = {}
               THEN \* e is None: e.timestamp = ...
                    /\ ret' = Raise("AttributeError")
                    /\ UNCHANGED eventmodel
               ELSE \E e \in GetEventRow(eventmodel, bucket_keys[b], event_id) :
                       /\ eventmodel' = (eventmodel \ {e}) \cup {PeeweeReplaceRow(e, event)}
                       /\ ret' = Return(<<[event EXCEPT !.id = e.id]>>)
            /\ UNCHANGED db
    /\ UNCHANGED <<gate, backend, now, metadata, bucket_keys, applicationmodel, ev>>
    /\ UNCHANGED lifecycleVars

\* _get_last_event_by_app_title: the rows .first() may return, the newest of
\* those with this application_name and title, in any bucket
LastEventByAppTitle(rows, app, title) ==
    LET found == {r \in rows : r.application_name = app /\ r.title = title}
    IN  {r \in found : \A o \in found : o.timestamp <= r.timestamp}

\* Bucket.replace_last(event).  MemoryStorage replaces the event with the
\* greatest timestamp (IndexError in an empty bucket); PeeweeStorage overwrites
\* the duration of the newest row with the event's application_name and title.
ReplaceLast(b, event) ==
    /\ call = Idle
    /\ call' = EventOpCall("replace_last", b, None, <<event>>)
    /\ IF backend = "memory"
       THEN /\ IF b \notin Buckets
               THEN /\ ret' = Raise("KeyError")
                    /\ UNCHANGED db
               ELSE IF db[b] = <<>>
               THEN /\ ret' = Raise("IndexError")
                    /\ UNCHANGED db
               ELSE /\ db' = [db EXCEPT ![b] =
                                 MemReplace(db[b], SortedByTimestamp(db[b])[Len(db[b])].id, event)]
                    /\ ret' = Return(<<>>)
            /\ UNCHANGED eventmodel
       ELSE LET found == LastEventByAppTitle(eventmodel, EventApplicationName(event.data),
                                             EventTitle(event.data))
            IN  /\ IF found = {}
                   THEN /\ ret' = Return(<<event>>)
                        /\ UNCHANGED eventmodel
                   ELSE \E e \in found :
                           /\ eventmodel' = (eventmodel \ {e}) \cup
                                 {[e EXCEPT !.duration = event.duration,
                                            !.server_sync_status = MutatedStatus]}
                           /\ ret' = Return(<<[event EXCEPT !.id = e.id]>>)
                /\ UNCHANGED db
    /\ UNCHANGED <<gate, backend, now, metadata, bucket_keys, applicationmodel, ev>>
    /\ UNCHANGED lifecycleVars

SyncCall(ids, status) == [op |-> "update_server_sync_status", ids |-> ids, status |-> status]

\* Datastore.update_server_sync_status(list_of_ids, new_status): MemoryStorage
\* does not define it; PeeweeStorage updates the rows with those ids.
UpdateServerSyncStatus(ids, new_status) ==
    /\ call = Idle
    /\ call' = SyncCall(ids, new_status)
    /\ IF backend = "memory"
       THEN /\ ret' = Raise("NotImplementedError")
            /\ UNCHANGED eventmodel
       ELSE /\ eventmodel' = {IF r.id \in ids THEN [r EXCEPT !.server_sync_status = new_status]
                              ELSE r : r \in eventmodel}
            /\ ret' = Return(<<>>)
    /\ UNCHANGED <<gate, backend, now, metadata, db, bucket_keys, applicationmodel, ev>>
    /\ UNCHANGED lifecycleVars

\* one wall clock reading is enough here: recent events
InitBuckets == Init /\ now = 2

NextBuckets ==
    \/ Done
    \/ /\ call = Idle
       /\ \/ \E b \in BucketIds : CreateBucket(b)
          \/ \E b \in BucketIds : GetItem(b)
          \/ \E b \in BucketIds, name \in BucketNames : UpdateBucket(b, name)
          \/ \E b \in BucketIds : DeleteBucket(b)
          \/ \E b \in BucketIds : GetMetadata(b)
          \/ \E b \in BucketIds, event \in LifecycleEvents : BucketInsert(b, event)
          \/ \E b \in BucketIds, id \in EventIds : Delete(b, id)
          \/ \E b \in BucketIds, id \in EventIds, event \in LifecycleEvents : Replace(b, id, event)
          \/ \E b \in BucketIds, event \in LifecycleEvents : ReplaceLast(b, event)
          \/ \E ids \in SyncIds, new_status \in SyncStatuses : UpdateServerSyncStatus(ids, new_status)

SpecBuckets == InitBuckets /\ [][NextBuckets]_vars

-----------------------------------------------------------------------------
(* Opening the store: PeeweeStorage.init_db and the credentials it reads   *)

\* cache_user_credentials(cache_key, service): the cached entry if there is
\* one, else what the keyring holds, which is then the cached entry
CacheUserCredentials(cached, keyring) == IF cached.stored THEN cached ELSE keyring

\* init_db and its locals db_key and key
InitCall(db_key, key) == [op |-> "init_db", bucket |-> "", db_key |-> db_key, key |-> key]

\* a call that returned a value which is not a list of events
ReturnValue(v) == [exc |-> "", events |-> <<>>, value |-> v]

storeVars == <<metadata, db, bucketmodel, bucket_instances, removed, eventmodel,
               applicationmodel, ev>>

\* The four create_table(safe=True) of init_db raise: never, CREATE TABLE IF
\* NOT EXISTS succeeds on a new file and on a file that has the tables
CreateTablesRaise(exists) == FALSE

\* what `if auto_migrate(_db, filepath)` tests: auto_migrate returns None
AutoMigrate(exists) == FALSE

\* database_changed of init_db where the user's file is opened (no filepath
\* is given, so the path is not compared)
DatabaseChanged(exists) == ~CreateTablesRaise(exists) \/ AutoMigrate(exists)

\* the calls init_db ends with: stop_all_module() if database_changed, then
\* start_all_module() and self.launch_application_start()
ModuleCalls(database_changed) ==
    (IF database_changed THEN <<"stop_all_module">> ELSE <<>>)
        \o <<"start_all_module", "launch_application_start">>

\* init_db returned v after these calls to the modules
InitReturn(v, calls) == [exc |-> "", events |-> <<>>, value |-> v, calls |-> calls]

\* what check_startup_status() may return
StartupStatuses == {"true", "false"}

\* PeeweeStorage.init_db(), as PeeweeStorage.__init__ and Datastore.init_db call
\* it (testing=True, no filepath)
InitDb ==
    /\ call = Idle
    /\ backend = "peewee"
    /\ LET cached_credentials == CacheUserCredentials(gate.ttim, gate.keyring)
           db_key == cached_credentials.encrypted_db_key
           sundial == CacheUserCredentials(gate.sundial, gate.keyring)
           key == sundial.user_key
           loaded == [gate EXCEPT !.ttim = cached_credentials, !.sundial = sundial,
                                  !.constructed = TRUE]
       IN  /\ call' = InitCall(db_key, key)
           /\ IF db_key = NoDbKey \/ key = NoKey
              THEN \* os.remove(filepath) of the testing file; return False
                   /\ gate' = [loaded EXCEPT !.files = @ \ {TestingFile}, !.ready = FALSE]
                   /\ ret' = ReturnValue(FALSE)
                   /\ UNCHANGED bucket_keys
              ELSE IF DecryptUuid(db_key, key) = NoKey
              THEN \* decrypt_uuid: reset_user() deletes the keyring entry, clears
                   \* the "sundial" cache entry and stops the modules
                   /\ gate' = [loaded EXCEPT !.keyring = NoCredentials,
                                              !.sundial = NoCredentials,
                                              !.modules = FALSE, !.ready = FALSE]
                   /\ ret' = ReturnValue(FALSE)
                   /\ UNCHANGED bucket_keys
              ELSE \* the user's file is opened (created if missing), the bucket
                   \* keys are read, the modules are started
                   /\ \E launch \in StartupStatuses :
                         gate' = [loaded EXCEPT
                                     !.opened = UserFile(cached_credentials.email),
                                     !.files = @ \cup {UserFile(cached_credentials.email)},
                                     !.modules = TRUE, !.ready = TRUE,
                                     !.settings = OpenedSettings(gate.settings, launch),
                                     !.settings_cache = OpenedCache(gate.settings, launch)]
                   /\ bucket_keys' = UpdateBucketKeys(bucketmodel)
                   /\ ret' = InitReturn(TRUE, ModuleCalls(DatabaseChanged(
                                 UserFile(cached_credentials.email) \in gate.files)))
    /\ UNCHANGED <<backend, now>>
    /\ UNCHANGED storeVars

\* cache.add_password("SD_KEYS", ...): the user logs in
AddPassword(credentials) ==
    /\ call = Idle
    /\ gate.constructed
    /\ gate' = [gate EXCEPT !.keyring = credentials]
    /\ UNCHANGED <<backend, now, bucket_keys, call, ret>>
    /\ UNCHANGED storeVars

\* cache.delete_password("SD_KEYS"): the user logs out
DeletePassword ==
    /\ call = Idle
    /\ gate.constructed
    /\ gate' = [gate EXCEPT !.keyring = NoCredentials]
    /\ UNCHANGED <<backend, now, bucket_keys, call, ret>>
    /\ UNCHANGED storeVars

\* cache.clear_all_credentials(), or the TTLCache entries expire
ClearAllCredentials ==
    /\ call = Idle
    /\ gate.constructed
    /\ gate' = [gate EXCEPT !.ttim = NoCredentials, !.sundial = NoCredentials]
    /\ UNCHANGED <<backend, now, bucket_keys, call, ret>>
    /\ UNCHANGED storeVars

\* util.reset_user(), the logout: delete_password("SD_KEYS"),
\* clear_credentials("sundial"), stop_all_module()
ResetUser ==
    /\ call = Idle
    /\ gate.constructed
    /\ gate' = [gate EXCEPT !.keyring = NoCredentials, !.sundial = NoCredentials,
                            !.modules = FALSE]
    /\ call' = [op |-> "reset_user", bucket |-> ""]
    /\ ret' = Return(<<>>)
    /\ UNCHANGED <<backend, now, bucket_keys>>
    /\ UNCHANGED storeVars

\* the operations of the store that SpecInit calls
StoreOps == {"create_bucket", "insert", "get_events"}

\* an operation on a store that never opened a database: db_proxy is not
\* initialized and self.bucket_keys was never set
Uninitialized(op, b) ==
    /\ call = Idle
    /\ gate.constructed
    /\ gate.opened = NoFile
    /\ call' = Call(op, b, None, None, None, <<>>)
    /\ ret' = Raise("AttributeError")
    /\ UNCHANGED <<gate, backend, now, bucket_keys>>
    /\ UNCHANGED storeVars

\* before PeeweeStorage.__init__ calls init_db: whatever an earlier run left
\* in the keyring and on disk, no database open, an empty cache
InitGate ==
    /\ InitStore
    /\ backend = "peewee"
    /\ now = 2
    /\ \E keyring \in LoginCredentials \cup {NoCredentials},
          files \in SUBSET {TestingFile}, modules \in BOOLEAN :
          gate = [keyring |-> keyring, ttim |-> NoCredentials, sundial |-> NoCredentials,
                  opened |-> NoFile, files |-> files, modules |-> modules,
                  constructed |-> FALSE, ready |-> FALSE,
                  settings |-> NoSettings, settings_cache |-> NoCache]

NextInit ==
    \/ Done
    \/ InitDb
    \/ \E credentials \in LoginCredentials : AddPassword(credentials)
    \/ DeletePassword
    \/ ClearAllCredentials
    \/ ResetUser
    \/ \E op \in StoreOps : Uninitialized(op, "b1")
    \/ gate.opened # NoFile /\ CreateBucket("b1")
    \/ gate.opened # NoFile /\ BucketInsert("b1", Event(None, 0, "timedelta", 0, DataCode))
    \/ gate.opened # NoFile /\ GetEvents("b1", None, None, None)

SpecInit == InitGate /\ [][NextInit]_vars

-----------------------------------------------------------------------------
(* Query functions (aw_query/functions.py)                                 *)

\* a Python value with its type; str and int values are written out in
\* characters
Val(type, val) == [type |-> type, val |-> val]

\* bool(v): `if hostname:`
Truthy(v) ==
    CASE v.type = "str" -> v.val # <<>>
      [] v.type = "int" -> v.val # <<"0">>
      [] OTHER -> FALSE

\* a parameter of a signature: its annotation and whether it has a default
Param(name, annotation, has_default) ==
    [name |-> name, annotation |-> annotation, has_default |-> has_default]

\* inspect.signature of q2_find_bucket, q2_query_bucket, q2_query_bucket_eventcount
Signature(fname) ==
    IF fname = "find_bucket"
    THEN <<Param("datastore", "Datastore", FALSE),
           Param("filter_str", "str", FALSE),
           Param("hostname", "Optional[str]", TRUE)>>
    ELSE <<Param("datastore", "Datastore", FALSE),
           Param("namespace", "TNamespace", FALSE),
           Param("bucketname", "str", FALSE)>>

\* q2_function's wrapper: (datastore, namespace, *args), without the namespace
\* and the datastore when the signature has no parameter annotated with them
Q2FunctionArgs(fname, args) ==
    LET annotations == {Signature(fname)[i].annotation : i \in DOMAIN Signature(fname)}
    IN  (IF "Datastore" \in annotations THEN <<Val("Datastore", <<>>)>> ELSE <<>>)
        \o (IF "TNamespace" \in annotations THEN <<Val("dict", <<>>)>> ELSE <<>>)
        \o args

\* q2_typecheck: the parameters annotated list, str, int or float that have no
\* default are tested with isinstance; the others are not looked at
Checked(param) ==
    param.annotation \in {"list", "str", "int", "float"} /\ ~param.has_default

Q2Typecheck(fname, args) ==
    \A i \in DOMAIN Signature(fname) :
       Checked(Signature(fname)[i]) => args[i].type = Signature(fname)[i].annotation

\* the id of a bucket, written out
BucketIdChars(b) == IF b = "b1" THEN <<"b", "1">> ELSE <<"b", "2">>

\* bucket_metadata["hostname"]
BucketHostname(b) ==
    IF backend = "memory" THEN metadata[b].hostname
    ELSE (CHOOSE k \in bucketmodel : k.id = b).hostname

\* _verify_bucket_exists(datastore, bucketname): bucketname in datastore.buckets()
VerifyBucketExistsMut(bucketname) == TRUE
VerifyBucketExists(bucketname) == \E b \in Buckets : BucketIdChars(b) = bucketname.val

\* the namespace of a query: STARTTIME and ENDTIME, here in microseconds
STARTTIME == 0
ENDTIME == 2000

QueryCallRecord(fname, args) == [op |-> "query", bucket |-> "", fname |-> fname, args |-> args]

\* the outcome of a query function: invoked tells whether the decorated
\* function itself was entered
QueryReturn(exc, events, value, invoked) ==
    [exc |-> exc, events |-> events, value |-> value, invoked |-> invoked]

\* q2_find_bucket(datastore, filter_str, hostname): the first bucket of
\* datastore.buckets() whose id contains filter_str and, when a hostname is
\* given, whose hostname equals it; every bucket looked at on the way gets its
\* Bucket object cached by datastore[bucket]
Q2FindBucket(filter_str, hostname) ==
    LET candidates == {b \in Buckets : Contains(filter_str.val, BucketIdChars(b))}
        matching == {b \in candidates :
                        Truthy(hostname) => /\ hostname.type = "str"
                                            /\ BucketHostname(b) = hostname.val}
    IN  IF matching = {}
        THEN /\ ret' = QueryReturn("QueryFunctionException", <<>>, "", TRUE)
             /\ bucket_instances' = bucket_instances \cup candidates
        ELSE \E b \in matching, seen \in SUBSET (candidates \ matching) :
                /\ ret' = QueryReturn("", <<>>, b, TRUE)
                /\ bucket_instances' = bucket_instances \cup seen \cup {b}

\* datastore[bucketname] in the query functions, after _verify_bucket_exists
Q2GetItem(bucketname) ==
    {b \in BucketIds : /\ BucketIdChars(b) = bucketname.val
                       /\ (GetItemCached(b) \/ b \in Buckets)}

\* q2_query_bucket(datastore, namespace, bucketname)
Q2QueryBucket(bucketname) ==
    IF ~VerifyBucketExists(bucketname)
    THEN /\ ret' = QueryReturn("QueryFunctionException", <<>>, "", TRUE)
         /\ UNCHANGED bucket_instances
    ELSE IF Q2GetItem(bucketname) = {}
    THEN /\ ret' = QueryReturn("KeyError", <<>>, "", TRUE)
         /\ UNCHANGED bucket_instances
    ELSE \E b \in Q2GetItem(bucketname) :
            /\ bucket_instances' = bucket_instances \cup {b}
            /\ \E events \in StorageGetEvents(b, None, GetStarttime(STARTTIME),
                                               GetEndtime(ENDTIME)) :
                  ret' = QueryReturn("", events, "", TRUE)

\* q2_query_bucket_eventcount(datastore, namespace, bucketname)
Q2QueryBucketEventcount(bucketname) ==
    IF ~VerifyBucketExists(bucketname)
    THEN /\ ret' = QueryReturn("QueryFunctionException", <<>>, "", TRUE)
         /\ UNCHANGED bucket_instances
    ELSE IF Q2GetItem(bucketname) = {}
    THEN /\ ret' = QueryReturn("KeyError", <<>>, "", TRUE)
         /\ UNCHANGED bucket_instances
    ELSE \E b \in Q2GetItem(bucketname) :
            /\ bucket_instances' = bucket_instances \cup {b}
            /\ \E n \in (IF backend = "memory"
                          THEN {MemGetEventcount(b, STARTTIME \div 1000, ENDTIME \div 1000)}
                          ELSE PeeweeGetEventcount(b, STARTTIME \div 1000, ENDTIME \div 1000)) :
                  ret' = QueryReturn("", <<>>, ToString(n), TRUE)

\* functions[fname](datastore, namespace, *args): q2_function's wrapper, then
\* q2_typecheck's, then the function
QueryCall(fname, args) ==
    /\ call = Idle
    /\ call' = QueryCallRecord(fname, args)
    /\ LET all == Q2FunctionArgs(fname, args)
           hostname == IF Len(all) >= 3 THEN all[3] ELSE Val("NoneType", <<>>)
       IN  IF ~Q2Typecheck(fname, all)
           THEN /\ ret' = QueryReturn("QueryFunctionException", <<>>, "", FALSE)
                /\ UNCHANGED bucket_instances
           ELSE IF fname = "find_bucket" THEN Q2FindBucket(all[2], hostname)
           ELSE IF fname = "query_bucket" THEN Q2QueryBucket(all[3])
           ELSE Q2QueryBucketEventcount(all[3])
    /\ UNCHANGED <<gate, backend, now, metadata, db, bucket_keys, bucketmodel, removed,
                   eventmodel, applicationmodel, ev>>

OtherHost == <<"o">>

\* the arguments a query passes: strings, integers, None
FilterArgs == {Val("str", <<"b">>), Val("str", <<"2">>), Val("str", <<"x">>),
               Val("int", <<"5">>)}
HostnameArgs == {Val("NoneType", <<>>), Val("str", <<>>), Val("str", TestHost),
                 Val("int", <<"0">>), Val("int", <<"5">>)}
BucketnameArgs == {Val("str", <<"b", "1">>), Val("str", <<"x">>), Val("int", <<"5">>)}

NextQuery ==
    \/ Done
    \/ \E b \in BucketIds, hostname \in {TestHost, OtherHost} :
          CreateBucketAs(b, hostname, NoName)
    \/ \E b \in BucketIds : DeleteBucket(b)
    \/ BucketInsert("b1", Event(None, 0, "timedelta", 0, DataCode))
    \/ \E f \in FilterArgs : QueryCall("find_bucket", <<f>>)
    \/ \E f \in FilterArgs, h \in HostnameArgs : QueryCall("find_bucket", <<f, h>>)
    \/ \E n \in BucketnameArgs : QueryCall("query_bucket", <<n>>)
    \/ \E n \in BucketnameArgs : QueryCall("query_bucket_eventcount", <<n>>)

SpecQuery == InitBuckets /\ [][NextQuery]_vars

-----------------------------------------------------------------------------
(* Claims                                                                  *)

IsRead == call.op \in {"get", "get_events"}

Ids(events) == {e.id : e \in events}

NonIncreasing(events) ==
    \A i, j \in DOMAIN events : i < j => events[i].timestamp >= events[j].timestamp

Min(a, b) == IF a < b THEN a ELSE b

\* C1: get_events(bucket, limit < 0, start, end) returns exactly the events of
\* the bucket whose interval [timestamp, timestamp + duration) overlaps
\* [start, end): timestamp < end and timestamp + duration > start.
C1_HalfOpenOverlap ==
    (/\ call.op = "get_events"
     /\ call.limit < 0
     /\ call.starttime # None
     /\ call.endtime # None)
    => /\ Ids(Range(ret.events)) =
            Ids({e \in BucketEvents(call.bucket) :
                    /\ e.timestamp < call.endtime
                    /\ e.timestamp + e.duration > call.starttime})
       /\ Len(ret.events) = Cardinality(Ids(Range(ret.events)))

\* C2: every event e returned by Bucket.get(starttime, endtime) with
\* starttime <= endtime has starttime <= e.timestamp and
\* e.timestamp + e.duration <= endtime + 1 ms, on every backend.
C2_RangeTrim ==
    (/\ call.op = "get"
     /\ call.starttime # None
     /\ call.endtime # None
     /\ call.starttime <= call.endtime)
    => \A i \in DOMAIN ret.events :
          /\ call.starttime <= ret.events[i].timestamp * 1000
          /\ (ret.events[i].timestamp + ret.events[i].duration) * 1000
                <= call.endtime + 1000

\* the row insert_one stores for an event inserted into an empty store
IsRowOf(r, e) == r = [FromEvent(r.bucket, e) EXCEPT !.id = r.id]

Coalescible(e1, e2) ==
    /\ EventApp(e1.data) # <<>> /\ EventTitle(e1.data) # <<>>
    /\ EventApp(e2.data) # <<>> /\ EventTitle(e2.data) # <<>>
    /\ "app" \in DOMAIN e1.data /\ "title" \in DOMAIN e1.data
    /\ ~Contains(Afk, EventApplicationName(e1.data))
    /\ ~Contains(Afk, EventApplicationName(e2.data))
    /\ EventApplicationName(e1.data) = EventApplicationName(e2.data)
    /\ EventTitle(e1.data) = EventTitle(e2.data)
    /\ e2.timestamp - e1.timestamp <= PulsetimeMs

\* C3: in the peewee store, when e1 was inserted into an empty bucket and e2,
\* with the same (application_name, title) and at most 70 s later, is inserted
\* next, the bucket holds exactly one event and its duration is
\* e1.duration + e2.duration.
C3_CoalesceWithin70s ==
    [][(/\ backend = "peewee"
        /\ call'.op = "insert"
        /\ Cardinality(eventmodel) = 1
        /\ \A r \in eventmodel :
              /\ r.bucket = bucket_keys[call'.bucket]
              /\ IsRowOf(r, RowEvent(r))
              /\ Coalescible(RowEvent(r), call'.events[1]))
       => /\ Cardinality(eventmodel') = 1
          /\ \A r \in eventmodel, r2 \in eventmodel' :
                /\ r2.bucket = r.bucket
                /\ r2.duration = r.duration + call'.events[1].duration]_vars

\* C4: insert_one of an event whose app or title is empty drops the event
\* without raising; no event row is created or modified.
C4_EmptyAppOrTitleDropped ==
    [][(/\ backend = "peewee"
        /\ call'.op = "insert"
        /\ \/ EventApp(call'.events[1].data) = <<>>
           \/ EventTitle(call'.events[1].data) = <<>>)
       => /\ ret'.exc = ""
          /\ eventmodel' = eventmodel]_vars

\* the events of a list that the store is to keep: all of them, but in the
\* peewee store those with an empty app or title
Kept(events) ==
    IF backend = "memory" THEN Len(events)
    ELSE Cardinality({i \in DOMAIN events :
                         /\ EventApp(events[i].data) # <<>>
                         /\ EventTitle(events[i].data) # <<>>})

\* C5: after Bucket.insert(L) with a list L, get_eventcount() is its value
\* before the call plus |L| (in the peewee store, minus the events of L whose
\* app or title is empty).
C5_InsertCount ==
    [][\A b \in BucketIds :
          (call'.op = "insert_list" /\ call'.bucket = b)
          => EventCount(b)' = EventCount(b) + Kept(call'.events)]_vars

\* C6: after Bucket.insert(e) of one valid event without id into an empty
\* bucket, Bucket.get() returns exactly one event, equal to e.
C6_InsertThenGet ==
    [][\A b \in BucketIds :
          (/\ call'.op = "insert"
           /\ call'.bucket = b
           /\ BucketEvents(b) = {})
          => \A events \in StorageGetEvents(b, 0 - 1, None, None)' :
                /\ Len(events) = 1
                /\ EventEq(events[1], call'.events[1])]_vars

\* C7: Bucket.get / get_events returns the events sorted by timestamp,
\* newest first, whatever the order they were inserted in.
C7_NewestFirst == IsRead => NonIncreasing(ret.events)

\* a bucket filled oldest first, read back newest first
C7_Witness ==
    /\ backend = "memory"
    /\ call.op = "get"
    /\ Len(ret.events) = 2
    /\ Len(db[call.bucket]) = 2
    /\ db[call.bucket][1].timestamp < db[call.bucket][2].timestamp
    /\ ret.events[1].timestamp > ret.events[2].timestamp

C9_DateFilterExclusive ==
    (/\ call.op = "get"
     /\ call.limit < 0
     /\ \A e \in BucketEvents(call.bucket) : e.duration = 0
     /\ \A e1, e2 \in BucketEvents(call.bucket) :
           e1.timestamp = e2.timestamp => e1 = e2)
    => Ids(Range(ret.events)) =
          Ids({e \in BucketEvents(call.bucket) :
                  /\ call.starttime # None => call.starttime < e.timestamp * 1000
                  /\ call.endtime # None => e.timestamp * 1000 < call.endtime})

\* C10: a negative duration given to Event(...) or assigned to Event.duration
\* is rejected with an error, and no Event object has a negative duration.
C10_NegativeDurationRejected ==
    /\ (call.op \in {"Event", "duration"} /\ DurationValue(call.kind, call.value) < 0)
          => ret.exc # ""
    /\ ev.duration >= 0

-----------------------------------------------------------------------------
(* Claims on the life of buckets and events                                *)

\* the rows of EventModel a step wrote: new rows and rows whose fields changed
Written == eventmodel' \ eventmodel

Orphans ==
    IF backend = "memory"
    THEN UNION {Range(db[b]) : b \in DOMAIN db \ DOMAIN metadata}
    ELSE {RowEvent(r) : r \in {x \in eventmodel :
                                  x.bucket \notin {k.key : k \in bucketmodel}}}

\* C12: after any sequence of create_bucket, delete_bucket, insert, replace and
\* delete every stored event belongs to a bucket that exists, and a
\* delete_bucket(b) that succeeded has removed b and every event of b.
C12_NoOrphanEvents ==
    [][/\ Orphans' = {}
       /\ Buckets' = {k.id : k \in bucketmodel'} \cup DOMAIN metadata'
       /\ \A b \in BucketIds :
             (call'.op = "delete_bucket" /\ call'.bucket = b /\ ret'.exc = "")
             => /\ b \in Buckets
                /\ b \notin Buckets'
                /\ removed' = BucketEvents(b)
                /\ backend = "peewee" =>
                      \A r \in eventmodel' : r.bucket # bucket_keys[b]]_vars

\* delete_bucket has removed a bucket with its events while the other bucket
\* keeps an event of its own
C12_Witness ==
    /\ call.op = "delete_bucket"
    /\ ret.exc = ""
    /\ removed # {}
    /\ \E b \in Buckets : BucketEvents(b) # {}

StoredIds ==
    IF backend = "memory"
    THEN UNION {{<<b, e.id>> : e \in Range(db[b])} : b \in DOMAIN db}
    ELSE {<<r.bucket, r.id>> : r \in eventmodel}

\* C15: stored events disappear only through delete(bucket, id) or
\* delete_bucket; create_bucket with the id of an existing bucket removes none.
C15_EventsOnlyDeleted ==
    [][StoredIds \ StoredIds' # {} => call'.op \in {"delete", "delete_bucket"}]_vars

-----------------------------------------------------------------------------
(* Claims on opening the store                                             *)

\* what init_db is about to read: the credentials behind the cache entries
\* "TTim" (db key, email) and "sundial" (user key)
DbKeySeen == CacheUserCredentials(gate.ttim, gate.keyring).encrypted_db_key

UserKeySeen == CacheUserCredentials(gate.sundial, gate.keyring).user_key

\* encrypted_db_key or user_key is absent
CredentialsAbsent == DbKeySeen = NoDbKey \/ UserKeySeen = NoKey

\* both are there and user_key is not the key encrypted_db_key was encrypted with
Undecryptable == ~CredentialsAbsent /\ DbKeySeen.key # UserKeySeen

\* C16: whenever encrypted_db_key or user_key is absent, or user_key does not
\* decrypt encrypted_db_key, init_db returns False without raising, opens no
\* database and starts no module.
C16_NotReadyWithoutRaising ==
    [][(call'.op = "init_db" /\ (CredentialsAbsent \/ Undecryptable))
       => /\ ret' = ReturnValue(FALSE)
          /\ gate'.opened = gate.opened
          /\ gate'.files \subseteq gate.files
          /\ gate'.modules => gate.modules]_vars

\* the constructor's init_db found a user_key that does not decrypt the db
\* key: it returned False, no database is open, no module runs
C16_Witness ==
    /\ call.op = "init_db"
    /\ call.db_key # NoDbKey
    /\ call.key \notin {NoKey, call.db_key.key}
    /\ ret = ReturnValue(FALSE)
    /\ gate.opened = NoFile
    /\ ~gate.modules

\* C17: after init_db has returned not ready, also when an earlier init_db on
\* the same store had succeeded, every read and every write is refused: no
\* operation returns stored data or changes the stored state until a later
\* init_db succeeds.
C17_NotReadyRefuses ==
    [][(call'.op \in StoreOps /\ ~gate.ready)
       => /\ ret'.exc # ""
          /\ UNCHANGED <<bucketmodel, bucket_keys, eventmodel>>]_vars

\* C18: when init_db finds the credentials absent, no per-user database file
\* peewee-sqlite-<email>.v<VERSION>.db remains on disk.
C18_StaleUserFileErased ==
    [][(call'.op = "init_db" /\ CredentialsAbsent)
       => UserFile(UserEmail) \notin gate'.files]_vars

\* C28: on every successful init_db the calls to the modules are, in this
\* order: stop-all-modules, issued iff the schema or the identity changed
\* during this open (the user's file was created, or it is not the file
\* that was open before), then start-all-modules, then the launch-at-login
\* policy; no stop comes after a start.
C28_ModuleCallOrder ==
    [][(call'.op = "init_db" /\ ret'.value = TRUE)
       => ret'.calls =
             (IF gate'.opened \notin gate.files \/ gate'.opened # gate.opened
              THEN <<"stop_all_module">> ELSE <<>>)
                \o <<"start_all_module", "launch_application_start">>]_vars

-----------------------------------------------------------------------------
(* Claims on the query functions                                           *)

\* the value v has the type a parameter is declared with; the datastore and
\* the namespace are supplied by the evaluator
TypeMatches(v, annotation) ==
    CASE annotation = "Optional[str]" -> v.type \in {"str", "NoneType"}
      [] annotation \in {"list", "str", "int", "float"} -> v.type = annotation
      [] OTHER -> TRUE

\* C19: a call of a registered query function with an argument whose type
\* differs from the type declared in the signature raises
\* QueryFunctionException before the function itself is invoked.
C19_TypeMismatchRejected ==
    call.op = "query" =>
        LET all == Q2FunctionArgs(call.fname, call.args)
        IN  (\E i \in DOMAIN all :
                ~TypeMatches(all[i], Signature(call.fname)[i].annotation))
            => ret.exc = "QueryFunctionException" /\ ~ret.invoked

\* the buckets find_bucket(filter_str, hostname) may answer with: the id
\* contains filter_str and, when a hostname is asked for (not None, not empty),
\* the bucket's hostname is that one
FindBucketMatches(filter_str, hostname) ==
    {b \in Buckets : /\ filter_str.type = "str"
                     /\ Contains(filter_str.val, BucketIdChars(b))
                     /\ hostname.val # <<>> => BucketHostname(b) = hostname.val}

\* C20: query_bucket and query_bucket_eventcount called with a bucket id that is
\* not in the datastore, and find_bucket called when no bucket id contains the
\* filter string with a matching hostname, raise QueryFunctionException, not
\* KeyError or another error.
C20_MissingBucketIsQueryError ==
    call.op = "query" =>
        /\ (/\ call.fname \in {"query_bucket", "query_bucket_eventcount"}
            /\ \A b \in Buckets : BucketIdChars(b) # call.args[1].val)
           => ret.exc = "QueryFunctionException"
        /\ (/\ call.fname = "find_bucket"
            /\ LET hostname == IF Len(call.args) = 2 THEN call.args[2]
                               ELSE Val("NoneType", <<>>)
               IN  /\ hostname.type \in {"str", "NoneType"}
                   /\ FindBucketMatches(call.args[1], hostname) = {})
           => ret.exc = "QueryFunctionException"

\* query_bucket("b1") was refused with QueryFunctionException, by
\* _verify_bucket_exists, while the datastore holds another bucket but not b1
C20_Witness ==
    /\ call.op = "query"
    /\ call.fname = "query_bucket"
    /\ call.args = <<Val("str", <<"b", "1">>)>>
    /\ Buckets = {"b2"}
    /\ ret.exc = "QueryFunctionException"
    /\ ret.invoked

-----------------------------------------------------------------------------
(* aw_transform: the pure functions over event lists                       *)

\* timeslot.Timeslot(start, end), the interval the transforms compute with
Timeslot(start, end) == [start |-> start, end |-> end]

\* Timeslot.overlaps / Timeslot.intersects: partial or entire overlap
TimeslotOverlaps(p, q) ==
    \/ p.start <= q.start /\ q.start < p.end
    \/ p.start < q.end /\ q.end <= p.end
    \/ q.start <= p.start /\ p.end <= q.end

\* Timeslot.intersection: the slot contained in both, or None (here the
\* empty sequence; a Timeslot object is always true in a condition)
TimeslotIntersection(p, q) ==
    IF TimeslotOverlaps(p, q)
    THEN <<Timeslot(IF p.start < q.start THEN q.start ELSE p.start,
                    IF p.end < q.end THEN p.end ELSE q.end)>>
    ELSE <<>>

\* Timeslot.gap: not None iff the slots are separated by a non-zero gap
TimeslotGap(p, q) == p.end < q.start \/ q.end < p.start

\* Timeslot.union of two slots that have no gap
TimeslotUnion(p, q) ==
    Timeslot(IF p.start < q.start THEN p.start ELSE q.start,
             IF p.end < q.end THEN q.end ELSE p.end)

\* _get_event_period
GetEventPeriod(event) == Timeslot(event.timestamp, event.timestamp + event.duration)

\* _replace_event_period: a deep copy of the event with the period's start
\* and duration
ReplaceEventPeriod(event, period) ==
    [event EXCEPT !.timestamp = period.start, !.duration = period.end - period.start]

\* The while loop of _intersecting_eventpairs from the indexes e1_i and e2_i
\* (counted from 1): the triples (e1, e2, ip) it yields.
RECURSIVE IntersectingEventpairsFrom(_, _, _, _)
IntersectingEventpairsFrom(events1, events2, e1_i, e2_i) ==
    IF ~(e1_i <= Len(events1) /\ e2_i <= Len(events2)) THEN <<>>
    ELSE LET e1 == events1[e1_i]
             e2 == events2[e2_i]
             e1_p == GetEventPeriod(e1)
             e2_p == GetEventPeriod(e2)
             ip == TimeslotIntersection(e1_p, e2_p)
         IN  IF ip # <<>>
             THEN <<(<<e1, e2, ip[1]>>)>> \o
                  (IF e1_p.end <= e2_p.end
                   THEN IntersectingEventpairsFrom(events1, events2, e1_i + 1, e2_i)
                   ELSE IntersectingEventpairsFrom(events1, events2, e1_i, e2_i + 1))
             ELSE IF e1_p.end <= e2_p.start
             THEN IntersectingEventpairsFrom(events1, events2, e1_i + 1, e2_i)
             ELSE IF e2_p.end <= e1_p.start
             THEN IntersectingEventpairsFrom(events1, events2, e1_i, e2_i + 1)
             ELSE IntersectingEventpairsFrom(events1, events2, e1_i + 1, e2_i + 1)

\* _intersecting_eventpairs: both lists sorted by timestamp, then the loop
IntersectingEventpairs(events1, events2) ==
    IntersectingEventpairsFrom(SortedByTimestamp(events1), SortedByTimestamp(events2), 1, 1)

\* filter_period_intersect(events, filterevents): works on sorted copies of
\* both lists and returns copies of the events cut to the intersections
FilterPeriodIntersectMut(events, filterevents) ==
    LET pairs == IntersectingEventpairs(SortedByTimestamp(events),
                                        SortedByTimestamp(filterevents))
    IN  [i \in 1..Len(pairs) |-> ReplaceEventPeriod(pairs[i][1], GetEventPeriod(pairs[i][2]))]
FilterPeriodIntersect(events, filterevents) ==
    LET pairs == IntersectingEventpairs(SortedByTimestamp(events),
                                        SortedByTimestamp(filterevents))
    IN  [i \in 1..Len(pairs) |-> ReplaceEventPeriod(pairs[i][1], pairs[i][3])]

\* An Event object of an argument list, with its place n in the
\* concatenated argument lists as its identity; 0 marks a copy made by the
\* transform.
WithRef(e, n) ==
    [id |-> e.id, timestamp |-> e.timestamp, duration |-> e.duration, data |-> e.data,
     server_sync_status |-> e.server_sync_status, ref |-> n]

Deref(o) ==
    [id |-> o.id, timestamp |-> o.timestamp, duration |-> o.duration, data |-> o.data,
     server_sync_status |-> o.server_sync_status]

Refs(events) == [i \in 1..Len(events) |-> WithRef(events[i], i)]

\* The for loop of period_union: e joins the last merged event when there
\* is no gap between them (a copy takes the last event's place), and is
\* appended itself otherwise.
RECURSIVE PeriodUnionMerge(_, _)
PeriodUnionMerge(events, merged_events) ==
    IF events = <<>> THEN merged_events
    ELSE LET e == Head(events)
             last_event == merged_events[Len(merged_events)]
             e_p == GetEventPeriod(e)
             le_p == GetEventPeriod(last_event)
         IN  IF ~TimeslotGap(e_p, le_p)
             THEN PeriodUnionMerge(Tail(events),
                      [merged_events EXCEPT ![Len(merged_events)] =
                          [ReplaceEventPeriod(last_event, TimeslotUnion(e_p, le_p))
                              EXCEPT !.ref = 0]])
             ELSE PeriodUnionMerge(Tail(events), Append(merged_events, e))

\* merged_events of period_union before the data is stripped
PeriodUnionMerged(events1, events2) ==
    LET events == SortedByTimestamp(Refs(events1 \o events2))
    IN  IF events = <<>> THEN <<>>
        ELSE PeriodUnionMerge(Tail(events), <<Head(events)>>)

\* the empty dict
NoData == [k \in {} |-> <<>>]

\* period_union(events1, events2): the merged events with data = {}
PeriodUnionMut(events1, events2) ==
    LET merged_events == PeriodUnionMerged(events1, <<>>) \o PeriodUnionMerged(events2, <<>>)
    IN  [i \in 1..Len(merged_events) |-> [Deref(merged_events[i]) EXCEPT !.data = NoData]]
PeriodUnion(events1, events2) ==
    LET merged_events == PeriodUnionMerged(events1, events2)
    IN  [i \in 1..Len(merged_events) |-> [Deref(merged_events[i]) EXCEPT !.data = NoData]]

\* The argument lists of period_union after the call: `event.data = {}` is
\* assigned to every object of merged_events, and those that are not copies
\* are the callers' Event objects.
PeriodUnionArgs(events1, events2) ==
    LET merged_events == PeriodUnionMerged(events1, events2)
        all == events1 \o events2
        after == [n \in 1..Len(all) |->
                     IF \E i \in 1..Len(merged_events) : merged_events[i].ref = n
                     THEN [all[n] EXCEPT !.data = NoData] ELSE all[n]]
    IN  <<SubSeq(after, 1, Len(events1)), SubSeq(after, Len(events1) + 1, Len(all))>>

\* The events the transforms are given: they start at 0, 1 or 2 ms and last
\* 0 or 2 ms, so that lists hold events that touch, overlap and coincide.
TransformEvents(datas) ==
    {Event(None, t, "timedelta", d, data) : t \in {0, 1000, 2000}, d \in {0, 2}, data \in datas}

\* an event that lasts as long as two of the others placed end to end
LongEvent == Event(None, 0, "timedelta", 4, DataCode)

\* the event lists of at most MaxList events, in any order
TransformLists(datas) == UNION {[1..n -> TransformEvents(datas)] : n \in 0..MaxList}

\* a call of a transform on two lists, and what it left: the list returned
\* and the argument lists as they are after the call
TransformCall(op, events1, events2, arg) ==
    [op |-> op, bucket |-> "", events1 |-> events1, events2 |-> events2, arg |-> arg]

TransformReturn(events, args) == [exc |-> "", events |-> events, args |-> args]

\* what a transform leaves alone: the whole store
Transform(op, events1, events2, arg, events, args) ==
    /\ call' = TransformCall(op, events1, events2, arg)
    /\ ret' = TransformReturn(events, args)
    /\ UNCHANGED <<gate, backend, now, metadata, db, bucket_keys, eventmodel,
                   applicationmodel, ev>>
    /\ UNCHANGED lifecycleVars

\* filter_period_intersect(events, filterevents)
FilterPeriodIntersectCall(events, filterevents) ==
    Transform("filter_period_intersect", events, filterevents, None,
              FilterPeriodIntersect(events, filterevents), <<events, filterevents>>)

\* period_union(events1, events2)
PeriodUnionCall(events1, events2) ==
    Transform("period_union", events1, events2, None,
              PeriodUnion(events1, events2), PeriodUnionArgs(events1, events2))

\* _split_event(e, dt): two copies of e cut at dt when dt lies strictly
\* inside e, else e alone (the second of the pair is None)
SplitEvent(e, dt) ==
    IF e.timestamp < dt /\ dt < e.timestamp + e.duration
    THEN <<[e EXCEPT !.duration = dt - e.timestamp],
           [e EXCEPT !.timestamp = dt, !.duration = (e.timestamp + e.duration) - dt]>>
    ELSE <<e>>

\* list.insert(i, x), i counted from 1
InsertAt(s, i, x) == SubSeq(s, 1, i - 1) \o <<x>> \o SubSeq(s, i, Len(s))

\* The while loop of union_no_overlap and the two `+=` after it; events2
\* is rewritten while the loop runs.
RECURSIVE UnionNoOverlapFrom(_, _, _, _, _)
UnionNoOverlapFrom(events1, events2, e1_i, e2_i, events_union) ==
    IF ~(e1_i <= Len(events1) /\ e2_i <= Len(events2))
    THEN events_union \o SubSeq(events1, e1_i, Len(events1))
                      \o SubSeq(events2, e2_i, Len(events2))
    ELSE LET e1 == events1[e1_i]
             e2 == events2[e2_i]
             e1_p == GetEventPeriod(e1)
             e2_p == GetEventPeriod(e2)
         IN  IF TimeslotOverlaps(e1_p, e2_p)
             THEN IF e1.timestamp <= e2.timestamp
                  THEN LET split == SplitEvent(e2, e1.timestamp + e1.duration)
                       IN  IF Len(split) = 2
                           THEN UnionNoOverlapFrom(events1, [events2 EXCEPT ![e2_i] = split[2]],
                                                   e1_i + 1, e2_i, Append(events_union, e1))
                           ELSE UnionNoOverlapFrom(events1, events2, e1_i + 1, e2_i + 1,
                                                   Append(events_union, e1))
                  ELSE LET split == SplitEvent(e2, e1.timestamp)
                       IN  UnionNoOverlapFrom(events1,
                               IF Len(split) = 2 THEN InsertAt(events2, e2_i + 1, split[2])
                                                 ELSE events2,
                               e1_i, e2_i + 1, Append(events_union, split[1]))
             ELSE IF e1.timestamp <= e2.timestamp
                  THEN UnionNoOverlapFrom(events1, events2, e1_i + 1, e2_i,
                                          Append(events_union, e1))
                  ELSE UnionNoOverlapFrom(events1, events2, e1_i, e2_i + 1,
                                          Append(events_union, e2))

\* union_no_overlap(events1, events2), on deep copies of both lists
UnionNoOverlapMut(events1, events2) == UnionNoOverlapFrom(events2, events1, 1, 1, <<>>)
UnionNoOverlap(events1, events2) == UnionNoOverlapFrom(events1, events2, 1, 1, <<>>)

UnionNoOverlapCall(events1, events2) ==
    Transform("union_no_overlap", events1, events2, None,
              UnionNoOverlap(events1, events2), <<events1, events2>>)

\* heartbeat_merge(last_event, heartbeat, pulsetime), pulsetime in seconds:
\* last_event with its duration stretched over the heartbeat, or None (the
\* empty sequence). The event returned is the last_event object itself.
HeartbeatMergeAnyOrder(last_event, heartbeat, pulsetime) ==
    LET new_duration == (heartbeat.timestamp - last_event.timestamp) + heartbeat.duration
    IN  IF /\ last_event.data = heartbeat.data
           /\ heartbeat.timestamp <= last_event.timestamp + last_event.duration + pulsetime * 1000
           /\ ~(last_event.duration < 0)
        THEN <<[last_event EXCEPT !.duration =
                    IF last_event.duration < new_duration THEN new_duration
                    ELSE last_event.duration]>>
        ELSE <<>>
HeartbeatMergeMut(last_event, heartbeat, pulsetime) ==
    IF /\ last_event.data = heartbeat.data
       /\ last_event.timestamp <= heartbeat.timestamp
       /\ heartbeat.timestamp <= last_event.timestamp + last_event.duration + pulsetime * 1000
       /\ ~(last_event.duration < 0)
    THEN <<last_event>>
    ELSE <<>>
HeartbeatMerge(last_event, heartbeat, pulsetime) ==
    LET pulseperiod_end == last_event.timestamp + last_event.duration + pulsetime * 1000
        within_pulsetime_window ==
            /\ last_event.timestamp <= heartbeat.timestamp
            /\ heartbeat.timestamp <= pulseperiod_end
        new_duration == (heartbeat.timestamp - last_event.timestamp) + heartbeat.duration
    IN  IF /\ last_event.data = heartbeat.data
           /\ within_pulsetime_window
           /\ ~(last_event.duration < 0)
        THEN <<[last_event EXCEPT !.duration =
                    IF last_event.duration < new_duration THEN new_duration
                    ELSE last_event.duration]>>
        ELSE <<>>

\* The for loop of heartbeat_reduce over the heartbeats left in events
RECURSIVE HeartbeatReduceFrom(_, _, _)
HeartbeatReduceFrom(events, reduced, pulsetime) ==
    IF events = <<>> THEN reduced
    ELSE LET merged == HeartbeatMerge(reduced[Len(reduced)], Head(events), pulsetime)
         IN  IF merged # <<>>
             THEN HeartbeatReduceFrom(Tail(events),
                                      [reduced EXCEPT ![Len(reduced)] = merged[1]], pulsetime)
             ELSE HeartbeatReduceFrom(Tail(events), Append(reduced, Head(events)), pulsetime)

\* reduced of heartbeat_reduce: the caller's Event objects, the first
\* popped off the caller's list
HeartbeatReduced(events, pulsetime) ==
    IF events = <<>> THEN <<>>
    ELSE HeartbeatReduceFrom(Tail(Refs(events)), <<Head(Refs(events))>>, pulsetime)

\* heartbeat_reduce(events, pulsetime)
HeartbeatReduce(events, pulsetime) ==
    LET reduced == HeartbeatReduced(events, pulsetime)
    IN  [i \in 1..Len(reduced) |-> Deref(reduced[i])]

\* The argument list of heartbeat_reduce after the call: events.pop(0) took
\* its first event away, and heartbeat_merge assigned the durations of the
\* objects it merged into.
HeartbeatReduceArgs(events, pulsetime) ==
    LET reduced == HeartbeatReduced(events, pulsetime)
        after == [n \in 1..Len(events) |->
                     IF \E i \in 1..Len(reduced) : reduced[i].ref = n
                     THEN Deref(CHOOSE o \in Range(reduced) : o.ref = n)
                     ELSE events[n]]
    IN  IF events = <<>> THEN <<>> ELSE Tail(after)

\* the pulsetimes given, in seconds
Pulsetimes == {0, 1}

HeartbeatReduceCall(events, pulsetime) ==
    Transform("heartbeat_reduce", events, <<>>, pulsetime,
              HeartbeatReduce(events, pulsetime),
              <<HeartbeatReduceArgs(events, pulsetime), <<>>>>)

\* Rule({"select_keys": ..., "ignore_case": ..., "regex": ...}): no
\* select_keys is the empty list, no regex (None or "") the empty string
Rule(select_keys, ignore_case, regex) ==
    [select_keys |-> select_keys, ignore_case |-> ignore_case, regex |-> regex]

\* self.regex.search(val) for a regex without metacharacters: the regex
\* occurs in val, letter case set aside under re.IGNORECASE
RegexSearch(rule, val) ==
    IF rule.ignore_case THEN Contains(Lower(rule.regex), Lower(val))
    ELSE Contains(rule.regex, val)

\* Rule.match(e): the regex is searched in the values of the selected keys
\* that the data has (a missing key gives None, which is no str), or in all
\* values; every value of the data here is a str
RuleMatch(rule, e) ==
    LET keys == IF rule.select_keys # <<>>
                THEN Range(rule.select_keys) \cap DOMAIN e.data
                ELSE DOMAIN e.data
    IN  /\ rule.regex # <<>>
        /\ \E key \in keys : RegexSearch(rule, e.data[key])

Uncategorized == <<"Uncategorized">>

\* _pick_deepest_cat(t1, t2): t2 unless t1 is longer
PickDeepestCatMut(t1, t2) == IF Len(t2) > Len(t1) THEN t2 ELSE t1
PickDeepestCat(t1, t2) == IF Len(t2) >= Len(t1) THEN t2 ELSE t1

\* reduce(_pick_deepest_cat, tags, acc)
RECURSIVE Reduce(_, _)
Reduce(tags, acc) ==
    IF tags = <<>> THEN acc ELSE Reduce(Tail(tags), PickDeepestCat(acc, Head(tags)))

\* _pick_category(tags)
PickCategory(tags) == Reduce(tags, Uncategorized)

\* [_cls for _cls, rule in classes if rule.match(e)]
RECURSIVE Matching(_, _)
Matching(classes, e) ==
    IF classes = <<>> THEN <<>>
    ELSE (IF RuleMatch(Head(classes)[2], e) THEN <<Head(classes)[1]>> ELSE <<>>)
         \o Matching(Tail(classes), e)

\* data[key] = value
SetItem(data, key, value) ==
    [k \in DOMAIN data \cup {key} |-> IF k = key THEN value ELSE data[k]]

\* _categorize_one(e, classes): assigns e.data["$category"] and returns e
CategorizeOne(e, classes) ==
    [e EXCEPT !.data = SetItem(e.data, "$category", PickCategory(Matching(classes, e)))]

\* categorize(events, classes): a new list of the same Event objects, each
\* with its data assigned to
Categorize(events, classes) == [i \in 1..Len(events) |-> CategorizeOne(events[i], classes)]

\* the events categorised: they differ by their data only
CategorizeLists ==
    UNION {[1..n -> {Event(None, 0, "timedelta", 2, data) :
                        data \in {DataCode, DataCodeExe, DataKey}}] : n \in 0..MaxList}

\* the (category, rule) pairs given: a rule on all values, a rule on one key
\* that ignores case, a rule filed under the empty category path, a rule
\* without a regex and a rule filed under the default category
Classes ==
    {<<(<<"Work">>), Rule(<<>>, FALSE, <<"c", "o", "d", "e">>)>>,
     <<(<<"Work", "Code">>), Rule(<<"app">>, TRUE, <<"c", "o", "d", "e">>)>>,
     <<(<<>>), Rule(<<"title">>, FALSE, <<"m">>)>>,
     <<(<<"Media">>), Rule(<<>>, FALSE, <<>>)>>,
     <<Uncategorized, Rule(<<"key">>, FALSE, <<"v">>)>>}

ClassLists == UNION {[1..n -> Classes] : n \in 0..MaxList}

CategorizeCall(events, classes) ==
    Transform("categorize", events, <<>>, classes,
              Categorize(events, classes), <<Categorize(events, classes), <<>>>>)

\* composite_key of merge_events_by_keys: the values of the keys the
\* event's data holds, in the order of keys; a key the data lacks adds
\* nothing
CompositeKey(event, keys) ==
    LET present == SelectSeq(keys, LAMBDA key : key \in DOMAIN event.data)
    IN  [i \in 1..Len(present) |-> event.data[present[i]]]

\* the data of a merged event: the keys of `keys` the first event holds
MergedData(event, keys) ==
    [key \in DOMAIN event.data \cap Range(keys) |-> event.data[key]]

\* The for loop of merge_events_by_keys; merged_events is the dict, in
\* insertion order, as a sequence of <<composite_key, event>>.
RECURSIVE MergedEventsFrom(_, _, _)
MergedEventsFrom(events, keys, merged_events) ==
    IF events = <<>> THEN merged_events
    ELSE LET event == Head(events)
             composite_key == CompositeKey(event, keys)
             at == {i \in 1..Len(merged_events) : merged_events[i][1] = composite_key}
         IN  IF at = {}
             THEN MergedEventsFrom(Tail(events), keys,
                      Append(merged_events,
                             <<composite_key,
                               [id |-> None, timestamp |-> event.timestamp,
                                duration |-> event.duration,
                                data |-> MergedData(event, keys),
                                server_sync_status |-> 0]>>))
             ELSE LET i == CHOOSE i \in at : TRUE
                  IN  MergedEventsFrom(Tail(events), keys,
                          [merged_events EXCEPT
                              ![i][2].duration = @ + event.duration])

\* merge_events_by_keys(events, keys)
MergeEventsByKeys(events, keys) ==
    IF Len(keys) < 1 THEN events
    ELSE LET merged_events == MergedEventsFrom(events, keys, <<>>)
         IN  [i \in 1..Len(merged_events) |-> merged_events[i][2]]

\* data dicts over the keys "a" and "b"
DataA == [a |-> <<"x">>]
DataB == [b |-> <<"x">>]
DataAB == [a |-> <<"x">>, b |-> <<"y">>]
DataAB2 == [a |-> <<"y">>, b |-> <<"y">>]

\* the events merged by keys: they start at 0 or 1 ms and last 1 or 2 ms
KeyedEvents ==
    {Event(None, t, "timedelta", d, data) :
        t \in {0, 1000}, d \in {1, 2}, data \in {DataA, DataB, DataAB, DataAB2}}
KeyedLists == UNION {[1..n -> KeyedEvents] : n \in 0..MaxList}
KeyLists == {<<>>, <<"a">>, <<"b">>, <<"a", "b">>}

MergeEventsByKeysCall(events, keys) ==
    Transform("merge_events_by_keys", events, <<>>, keys,
              MergeEventsByKeys(events, keys), <<events, <<>>>>)

\* data of a chunk: the shared key and the list of the events chunked
ChunkData(key, value, subevents) ==
    [k \in {key, "subevents"} |-> IF k = "subevents" THEN subevents ELSE value]

\* timediff of chunk_events_by_key, in ms: measured from the end of
\* events[-1], the last event of the list given
Timediff(events, event) ==
    event.timestamp - (events[Len(events)].timestamp + events[Len(events)].duration)

\* The for loop of chunk_events_by_key over the events left; it ends at the
\* first event whose data lacks the key.
RECURSIVE ChunkEventsFrom(_, _, _, _, _)
ChunkEventsFrom(events, rest, key, pulsetime, chunked_events) ==
    IF rest = <<>> \/ key \notin DOMAIN Head(rest).data THEN chunked_events
    ELSE LET event == Head(rest)
             n == Len(chunked_events)
         IN  IF /\ n > 0
                /\ chunked_events[n].data[key] = event.data[key]
                /\ Timediff(events, event) < pulsetime * 1000
             THEN ChunkEventsFrom(events, Tail(rest), key, pulsetime,
                      [chunked_events EXCEPT
                          ![n].duration = @ + event.duration,
                          ![n].data = ChunkData(key, event.data[key],
                                                Append(@["subevents"], event))])
             ELSE ChunkEventsFrom(events, Tail(rest), key, pulsetime,
                      Append(chunked_events,
                             [id |-> None, timestamp |-> event.timestamp,
                              duration |-> event.duration,
                              data |-> ChunkData(key, event.data[key], <<event>>),
                              server_sync_status |-> 0]))

\* chunk_events_by_key(events, key, pulsetime), pulsetime in seconds
ChunkEventsByKey(events, key, pulsetime) ==
    ChunkEventsFrom(events, events, key, pulsetime, <<>>)

\* the events chunked: they start at 0, 1 ms or 3 s and last 0 or 2 ms
ChunkedEvents ==
    {Event(None, t, "timedelta", d, data) :
        t \in {0, 1000, 3000000}, d \in {0, 2}, data \in {DataA, DataAB2, DataB}}
ChunkedLists == UNION {[1..n -> ChunkedEvents] : n \in 0..MaxList}

ChunkEventsByKeyCall(events, key, pulsetime) ==
    Transform("chunk_events_by_key", events, <<key>>, pulsetime,
              ChunkEventsByKey(events, key, pulsetime), <<events, <<key>>>>)

\* the events given to heartbeat_merge: those of the lists, and one whose
\* duration is negative (the duration setter stores it)
MergeEvents ==
    TransformEvents({DataCode, DataKey}) \cup {Event(None, 0, "timedelta", 0 - 2, DataKey)}

\* heartbeat_merge(last_event, heartbeat, pulsetime): returns the merged
\* event, which is the last_event object, or None
HeartbeatMergeCall(last_event, heartbeat, pulsetime) ==
    LET merged == HeartbeatMerge(last_event, heartbeat, pulsetime)
    IN  Transform("heartbeat_merge", <<last_event>>, <<heartbeat>>, pulsetime, merged,
                  <<IF merged = <<>> THEN <<last_event>> ELSE merged, <<heartbeat>>>>)

InitTransform == Init /\ backend = "memory" /\ now = 2

\* one transform is applied to the lists drawn
NextTransform ==
    \/ /\ call = Idle
       /\ \E events \in TransformLists({DataKey}), filterevents \in TransformLists({DataKey}) :
             FilterPeriodIntersectCall(events, filterevents)
    \/ /\ call = Idle
       /\ \E events1 \in TransformLists({DataKey}), events2 \in TransformLists({DataKey}) :
             PeriodUnionCall(events1, events2)
    \/ /\ call = Idle
       /\ \E events1 \in TransformLists({DataCode}) \cup {<<LongEvent>>},
             events2 \in TransformLists({DataKey}) :
             UnionNoOverlapCall(events1, events2)
    \/ /\ call = Idle
       /\ \E events \in TransformLists({DataCode, DataKey}), pulsetime \in Pulsetimes :
             HeartbeatReduceCall(events, pulsetime)
    \/ /\ call = Idle
       /\ \E events \in CategorizeLists, classes \in ClassLists :
             CategorizeCall(events, classes)
    \/ /\ call = Idle
       /\ \E last_event \in MergeEvents, heartbeat \in MergeEvents, pulsetime \in Pulsetimes :
             HeartbeatMergeCall(last_event, heartbeat, pulsetime)
    \/ /\ call = Idle
       /\ \E events \in KeyedLists, keys \in KeyLists : MergeEventsByKeysCall(events, keys)
    \/ /\ call = Idle
       /\ \E events \in ChunkedLists, pulsetime \in Pulsetimes :
             ChunkEventsByKeyCall(events, "a", pulsetime)

SpecTransform == InitTransform /\ [][NextTransform]_vars

-----------------------------------------------------------------------------
(* The aggregate queries of PeeweeStorage                                  *)

LockApp == <<"L", "o", "c", "k", "A", "p", "p">>
LoginWindow == <<"l", "o", "g", "i", "n", "w", "i", "n", "d", "o", "w">>
NotAfk == <<"n", "o", "t", "-", "a", "f", "k">>

\* SQL's  s LIKE '%pattern%': the pattern occurs in s, letter case set aside
Like(s, pattern) == Contains(Lower(pattern), Lower(s))

\* `duration > 30`: the column holds seconds, the rows here milliseconds
MinSeconds == 30

\* the window clause of _get_most_used_apps and _get_dashboard_events
InWindow(r, starttime, endtime) == r.timestamp >= starttime /\ r.timestamp <= endtime

\* WHERE of _get_dashboard_events, its window clause apart
DashboardWhere(r) ==
    /\ r.duration > MinSeconds * 1000
    /\ ~Like(r.app, Afk)
    /\ ~Like(Get(r.datastr, "app", <<>>), LockApp)
    /\ ~Like(Get(r.datastr, "app", <<>>), LoginWindow)
    /\ ~Like(Get(r.datastr, "status", <<>>), NotAfk)

\* WHERE of _get_non_sync_events
NonSyncWhere(r) ==
    /\ r.duration > MinSeconds * 1000
    /\ r.server_sync_status = 0
    /\ ~Like(Get(r.datastr, "app", <<>>), LockApp)
    /\ ~Like(Get(r.datastr, "app", <<>>), LoginWindow)
    /\ ~Like(Get(r.datastr, "status", <<>>), NotAfk)

\* WHERE of _get_most_used_apps
MostUsedWhereMut(r, starttime, endtime) ==
    /\ InWindow(r, starttime, endtime)
    /\ ~Like(r.app, Afk)
    /\ ~Like(r.app, LockApp)
    /\ ~Like(r.app, LoginWindow)
MostUsedWhere(r, starttime, endtime) ==
    /\ InWindow(r, starttime, endtime)
    /\ r.duration > MinSeconds * 1000
    /\ ~Like(r.app, Afk)
    /\ ~Like(r.app, LockApp)
    /\ ~Like(r.app, LoginWindow)

\* SUM(duration) over a set of rows, in seconds
RECURSIVE SumSeconds(_)
SumSeconds(rows) ==
    IF rows = {} THEN 0
    ELSE LET r == CHOOSE x \in rows : TRUE
         IN  r.duration \div 1000 + SumSeconds(rows \ {r})

\* _get_most_used_apps(starttime, endtime): GROUP BY app_name gives one row
\* for each application_name of the rows selected (the hh/mm/ss strings and
\* the url of the rows are left out)
MostUsedApps(rows, starttime, endtime) ==
    LET selected == {r \in rows : MostUsedWhere(r, starttime, endtime)}
    IN  {[app |-> name,
          totalDuration |-> SumSeconds({r \in selected : r.application_name = name})] :
            name \in {r.application_name : r \in selected}}

AggregateCall(op, starttime, endtime) ==
    [op |-> op, bucket |-> "", starttime |-> starttime, endtime |-> endtime]

\* what the aggregate queries leave alone: everything but call and ret
AggregateFrame ==
    /\ UNCHANGED <<gate, backend, now, metadata, db, bucket_keys, eventmodel,
                   applicationmodel, ev>>
    /\ UNCHANGED lifecycleVars

\* Datastore.get_most_used_apps(starttime, endtime)
GetMostUsedApps(starttime, endtime) ==
    /\ call = Idle
    /\ call' = AggregateCall("get_most_used_apps", starttime, endtime)
    /\ ret' = ReturnValue(MostUsedApps(eventmodel, starttime, endtime))
    /\ AggregateFrame

\* Datastore.get_non_sync_events(): the rows selected, here by their ids
\* (ORDER BY timestamp leaves rows of one timestamp in any order)
GetNonSyncEvents ==
    /\ call = Idle
    /\ call' = AggregateCall("get_non_sync_events", None, None)
    /\ ret' = ReturnValue({r.id : r \in {x \in eventmodel : NonSyncWhere(x)}})
    /\ AggregateFrame

DataFirefox == [app |-> <<"f", "x">>, title |-> <<"t">>]
DataFirefoxTab == [app |-> <<"f", "x">>, title |-> <<"u">>]
DataAfk == [app |-> Afk, title |-> <<"t">>, status |-> Afk]
DataLockApp == [app |-> LockApp, title |-> <<"t">>]

\* the heartbeats given: of 20 s and of 40 s, at 0 ms and at 1 ms
AggregateEvents ==
    {Event(None, t, "seconds", d, data) :
        t \in {0, 1000}, d \in {20, 40},
        data \in {DataFirefox, DataFirefoxTab, DataAfk, DataLockApp}}

\* no stored duration grows beyond this many seconds
MaxSeconds == 100

InitAggregate == InitBuckets /\ backend = "peewee"

NextAggregate ==
    \/ Done
    \/ CreateBucket("b1")
    \/ \E event \in AggregateEvents : BucketInsertWithin("b1", event, MaxSeconds * 1000)
    \/ \E ids \in SyncIds, new_status \in SyncStatuses : UpdateServerSyncStatus(ids, new_status)
    \/ \E starttime \in {0, 1}, endtime \in {0, 1} : GetMostUsedApps(starttime, endtime)
    \/ GetNonSyncEvents

SpecAggregate == InitAggregate /\ [][NextAggregate]_vars

-----------------------------------------------------------------------------

(* PeeweeStorage.insert_one run by two callers at once                     *)

\* the threads that call insert_one on one PeeweeStorage
Callers == {1, 2}

\* the heartbeats they insert: one application and one title, 20 s or 40 s
RaceEvents ==
    {Event(None, t, "seconds", d, DataFirefox) : t \in {0, 1000}, d \in {20, 40}}

\* the rows of the application and title of DataFirefox
Cluster(rows) ==
    {r \in rows : /\ r.application_name = EventApplicationName(DataFirefox)
                  /\ r.title = EventTitle(DataFirefox)}

\* Both callers have entered insert_one, each with its event; nothing is
\* read yet. `before` keeps the rows of the cluster at that moment and
\* `overlapped` tells whether a caller has read between the read and the
\* save of the other.
RaceCall(events) ==
    [op |-> "insert_one", bucket |-> "b1", events |-> events,
     pc |-> [c \in Callers |-> "read"],
     is_exist |-> [c \in Callers |-> {}],
     before |-> Cluster(eventmodel),
     overlapped |-> FALSE]

RaceFrame ==
    /\ UNCHANGED <<gate, backend, now, metadata, db, bucket_keys, ev, ret>>
    /\ UNCHANGED lifecycleVars

InRace == call # Idle /\ call.op = "insert_one"

StartRace(events) ==
    /\ call = Idle
    /\ backend = "peewee"
    /\ "b1" \in DOMAIN bucket_keys
    /\ \A r \in eventmodel :
          r.duration + events[1].duration + events[2].duration <= MaxSeconds * 1000
    /\ call' = RaceCall(events)
    /\ UNCHANGED <<eventmodel, applicationmodel>>
    /\ RaceFrame

\* insert_one up to `is_exist = self._get_last_event_by_app_title_pulsetime(...)`:
\* from_event has registered the application, is_exist holds the row read
\* (or nothing)
RaceRead(c) ==
    /\ InRace
    /\ call.pc[c] = "read"
    /\ LET event == call.events[c]
           found == LastEventByAppTitlePulsetime(
                        eventmodel, EventApplicationName(event.data),
                        EventTitle(event.data), now)
       IN  /\ applicationmodel' = FromApplicationDetails(applicationmodel, event.data)
           /\ \E is_exist \in (IF found = {} THEN {{}} ELSE {{r} : r \in found}) :
                 call' = [call EXCEPT
                             !.pc[c] = "save",
                             !.is_exist[c] = is_exist,
                             !.overlapped = @ \/ \E o \in Callers \ {c} : call.pc[o] = "save"]
    /\ UNCHANGED eventmodel
    /\ RaceFrame

\* `is_exist.duration += Decimal(str(e.duration)); is_exist.server_sync_status = 0`
\* on the row object the caller read
CoalescedMut(is_exist, e) ==
    [is_exist EXCEPT !.duration = e.duration, !.server_sync_status = MutatedStatus]
Coalesced(is_exist, e) ==
    [is_exist EXCEPT !.duration = is_exist.duration + e.duration,
                     !.server_sync_status = MutatedStatus]

\* the rest of insert_one: is_exist.save() writes the row object read over
\* the stored row of its id, e.save() inserts a new row
RaceSave(c) ==
    /\ InRace
    /\ call.pc[c] = "save"
    /\ LET event == call.events[c]
           e == FromEvent(bucket_keys["b1"], event)
       IN  IF ~Contains(Afk, EventApplicationName(event.data)) /\ call.is_exist[c] # {}
           THEN \E is_exist \in call.is_exist[c] :
                   eventmodel' = {r \in eventmodel : r.id # is_exist.id}
                                     \cup {Coalesced(is_exist, e)}
           ELSE eventmodel' = eventmodel \cup
                   {[e EXCEPT !.id = NewRowId(eventmodel), !.server_sync_status = 0]}
    /\ call' = [call EXCEPT !.pc[c] = "done"]
    /\ UNCHANGED applicationmodel
    /\ RaceFrame

\* both callers have returned
RaceOver == InRace /\ \A c \in Callers : call.pc[c] = "done"

NextRace ==
    \/ (~InRace \/ RaceOver) /\ Done
    \/ CreateBucket("b1")
    \/ \E event \in RaceEvents : BucketInsertWithin("b1", event, MaxSeconds * 1000)
    \/ \E events \in [Callers -> RaceEvents] : StartRace(events)
    \/ \E c \in Callers : RaceRead(c)
    \/ \E c \in Callers : RaceSave(c)

SpecRace == InitAggregate /\ [][NextRace]_vars

-----------------------------------------------------------------------------

(* MemoryStorage on its own: every operation that writes events            *)

\* the events given to insert_one: without id, and one that names an id
MemoryEvents == LifecycleEvents \cup {Event(0, 2000, "timedelta", 2, DataKey)}

NextMemory ==
    \/ Done
    \/ /\ call = Idle
       /\ \/ \E b \in BucketIds : CreateBucket(b)
          \/ \E b \in BucketIds, event \in MemoryEvents : BucketInsert(b, event)
          \/ \E b \in BucketIds, events \in InputLists : InsertMany(b, events)
          \/ \E b \in BucketIds, id \in EventIds : Delete(b, id)
          \/ \E b \in BucketIds, id \in EventIds, event \in LifecycleEvents : Replace(b, id, event)
          \/ \E b \in BucketIds, event \in LifecycleEvents : ReplaceLast(b, event)

InitMemory == InitBuckets /\ backend = "memory"

SpecMemory == InitMemory /\ [][NextMemory]_vars

-----------------------------------------------------------------------------

(* The settings of PeeweeStorage and their cache entry                     *)

\* the codes and values save_settings is given
SettingCodes == {"launch", "schedule", "idle_time", "profilePic"}
SettingValues == {"true", "false"}

SettingsCall(code, value) ==
    [op |-> "save_settings", bucket |-> "", code |-> code, value |-> value]

\* Datastore.save_settings(code, value) -> PeeweeStorage.save_settings
SaveSettings(code, value) ==
    /\ gate.opened # NoFile
    /\ call' = SettingsCall(code, value)
    /\ ret' = ReturnValue(JsonDumps(value))
    /\ gate' = [gate EXCEPT
                   !.settings = SaveSettingsTable(gate.settings, code, value),
                   !.settings_cache =
                       SaveSettingsCache(gate.settings, gate.settings_cache, code, value)]
    /\ UNCHANGED <<backend, now, bucket_keys>>
    /\ UNCHANGED storeVars

NextSettings ==
    \/ Done
    \/ /\ call = Idle
       /\ \E code \in SettingCodes, value \in SettingValues : SaveSettings(code, value)

SpecSettings == InitAggregate /\ [][NextSettings]_vars

-----------------------------------------------------------------------------

(* auto_migrate: the schema migration init_db runs on every open           *)

\* a table of the database file: its columns (PRAGMA table_info) and its rows
Table(columns, rows) == [columns |-> columns, rows |-> rows]

\* migrate(migrator.add_column(table, name, field)): the column is added and
\* every row gets the field's default in it
AddColumn(table, name, default) ==
    Table(table.columns \cup {name},
          {[c \in table.columns \cup {name} |-> IF c = name THEN default ELSE row[c]]
              : row \in table.rows})

\* what auto_migrate(db, path) leaves of the tables bucketmodel and
\* eventmodel: each column is added only when table_info does not list it
AutoMigrateTablesMut(tables) ==
    [bucketmodel |-> AddColumn(tables.bucketmodel, "datastr", "{}"),
     eventmodel |-> AddColumn(tables.eventmodel, "server_sync_status", 0)]
AutoMigrateTables(tables) ==
    LET has_datastr == "datastr" \in tables.bucketmodel.columns
        has_server_sync_status == "server_sync_status" \in tables.eventmodel.columns
    IN  [bucketmodel |-> IF ~has_datastr
                         THEN AddColumn(tables.bucketmodel, "datastr", "{}")
                         ELSE tables.bucketmodel,
         eventmodel |-> IF ~has_server_sync_status
                        THEN AddColumn(tables.eventmodel, "server_sync_status", 0)
                        ELSE tables.eventmodel]

\* the bucketmodel tables a database file may hold: written before or after
\* the datastr column existed
BucketTables ==
    {Table({"id"}, rows) : rows \in SUBSET [{"id"} -> {"b1", "b2"}]}
    \cup {Table({"id", "datastr"}, rows) :
             rows \in SUBSET {[c \in {"id", "datastr"} |-> IF c = "id" THEN id ELSE datastr] :
                                 id \in {"b1", "b2"}, datastr \in {"{}", "{a}"}}}

\* the eventmodel tables a database file may hold
EventTables ==
    {Table({"id"}, rows) : rows \in SUBSET [{"id"} -> {1, 2}]}
    \cup {Table({"id", "server_sync_status"}, rows) :
             rows \in SUBSET [{"id", "server_sync_status"} -> {1, 2}]}

MigrateCall(tables) == [op |-> "auto_migrate", bucket |-> "", tables |-> tables]

MigrateFrame ==
    /\ UNCHANGED <<gate, backend, now, metadata, db, bucket_keys, eventmodel,
                   applicationmodel, ev>>
    /\ UNCHANGED lifecycleVars

\* init_db opens a database file: auto_migrate(_db, filepath)
AutoMigrateCall(tables) ==
    /\ call' = MigrateCall(tables)
    /\ ret' = ReturnValue(AutoMigrateTables(tables))
    /\ MigrateFrame

\* the file is opened again: auto_migrate runs on what it left
AutoMigrateAgain ==
    /\ call # Idle
    /\ call.op = "auto_migrate"
    /\ call' = MigrateCall(ret.value)
    /\ ret' = ReturnValue(AutoMigrateTables(ret.value))
    /\ MigrateFrame

NextMigrate ==
    \/ Done
    \/ /\ call = Idle
       /\ \E bucket_table \in BucketTables, event_table \in EventTables :
             AutoMigrateCall([bucketmodel |-> bucket_table, eventmodel |-> event_table])
    \/ AutoMigrateAgain

SpecMigrate == InitAggregate /\ [][NextMigrate]_vars

-----------------------------------------------------------------------------

(* Claims on the transforms                                                *)

\* the time intervals of an event list, in order
Periods(events) == [i \in 1..Len(events) |-> GetEventPeriod(events[i])]

\* no two events of the list share an instant: each ends before or when
\* the other starts
Apart(events) ==
    \A i, j \in 1..Len(events) :
        i # j => \/ events[i].timestamp + events[i].duration <= events[j].timestamp
                 \/ events[j].timestamp + events[j].duration <= events[i].timestamp

\* every event of the list lasts
Lasting(events) == \A i \in 1..Len(events) : events[i].duration > 0

\* C21 as claimed: for all event lists A and B, filter_period_intersect(A, B)
\* and filter_period_intersect(B, A) have the same list of time intervals,
\* also when A or B holds events that overlap each other.
C21_IntersectCommutesAlways ==
    call.op = "filter_period_intersect" =>
        Periods(ret.events) = Periods(FilterPeriodIntersect(call.events2, call.events1))

\* C21 amended: for all lists A and B of events of positive duration in
\* which no two events of A overlap each other and no two events of B
\* overlap each other, filter_period_intersect(A, B) and
\* filter_period_intersect(B, A) have the same list of time intervals.
C21_IntersectCommutes ==
    (/\ call.op = "filter_period_intersect"
     /\ Apart(call.events1) /\ Lasting(call.events1)
     /\ Apart(call.events2) /\ Lasting(call.events2)) =>
        Periods(ret.events) = Periods(FilterPeriodIntersect(call.events2, call.events1))

\* two events of A that follow each other, both cut by one event of B
C21_Witness ==
    /\ call.op = "filter_period_intersect"
    /\ Apart(call.events1) /\ Lasting(call.events1)
    /\ Apart(call.events2) /\ Lasting(call.events2)
    /\ Len(call.events1) = 2
    /\ Len(call.events2) = 1
    /\ Len(ret.events) = 2
    /\ \A i \in 1..2 : ret.events[i].duration < call.events1[i].duration

\* C22: for all event lists A and B, period_union(period_union(A, B), [])
\* has exactly the time intervals of period_union(A, B).
C22_UnionIdempotent ==
    call.op = "period_union" =>
        Periods(PeriodUnion(ret.events, <<>>)) = Periods(ret.events)

\* a union that merged two of three events and kept the third apart
C22_Witness ==
    /\ call.op = "period_union"
    /\ Len(call.events1) + Len(call.events2) = 3
    /\ Len(ret.events) = 2
    /\ \E i \in 1..2 : ret.events[i].duration > 2

\* e covers the instant t
Covers(e, t) == e.timestamp <= t /\ t < e.timestamp + e.duration

\* C23: for all event lists A and B and every instant t inside an event a
\* of A, union_no_overlap(A, B) returns an event that covers t and carries
\* a's data.
C23_UnionKeepsFirst ==
    call.op = "union_no_overlap" =>
        \A i \in 1..Len(call.events1) :
            LET a == call.events1[i]
            IN  \A t \in a.timestamp..(a.timestamp + a.duration - 1) :
                    \E j \in 1..Len(ret.events) :
                        Covers(ret.events[j], t) /\ ret.events[j].data = a.data

\* an event of B was cut around an event of A: a piece of it is returned
\* that is not in B
C23_Witness ==
    /\ call.op = "union_no_overlap"
    /\ \E i \in 1..Len(call.events1) : call.events1[i].duration > 0
    /\ \E j \in 1..Len(ret.events) :
          /\ ret.events[j].data = DataKey
          /\ ret.events[j].duration > 0
          /\ \A k \in 1..Len(call.events2) : call.events2[k] # ret.events[j]

\* the list is in timestamp order
Ascending(events) ==
    \A i \in 1..(Len(events) - 1) : events[i].timestamp <= events[i + 1].timestamp

\* a and b share an instant
Overlap(a, b) == \E t \in a.timestamp..(a.timestamp + a.duration - 1) : Covers(b, t)

\* C31: for event lists A and B that are each sorted by timestamp and
\* internally non-overlapping, no event of union_no_overlap(A, B) that
\* comes from B overlaps an event of A.
C31_SecondCutToFirst ==
    (/\ call.op = "union_no_overlap"
     /\ Ascending(call.events1) /\ Apart(call.events1)
     /\ Ascending(call.events2) /\ Apart(call.events2)) =>
        \A j \in 1..Len(ret.events) :
            ret.events[j].data = DataKey =>
                \A i \in 1..Len(call.events1) : ~Overlap(ret.events[j], call.events1[i])

\* max of two numbers of ms
Longest(a, b) == IF a < b THEN b ELSE a

\* C32 as claimed: heartbeat_merge(last, next, pulsetime) merges exactly
\* when last.data = next.data and next.timestamp <= last.timestamp +
\* last.duration + pulsetime; the merged event has last's timestamp and the
\* duration max(last.duration, (next.timestamp - last.timestamp) + next.duration).
C32_MergeExactlyWhenClose ==
    call.op = "heartbeat_merge" =>
        LET last == call.events1[1]
            next == call.events2[1]
        IN  /\ ret.events # <<>> <=>
                  /\ last.data = next.data
                  /\ next.timestamp <= last.timestamp + last.duration + call.arg * 1000
            /\ ret.events # <<>> =>
                  /\ ret.events[1].timestamp = last.timestamp
                  /\ ret.events[1].duration =
                        Longest(last.duration,
                                (next.timestamp - last.timestamp) + next.duration)

\* C32 amended: heartbeat_merge(last, next, pulsetime) merges exactly when
\* last.data = next.data, last.timestamp <= next.timestamp <= last.timestamp
\* + last.duration + pulsetime and last.duration is not negative; the merged
\* event has last's timestamp and data and the duration
\* max(last.duration, (next.timestamp - last.timestamp) + next.duration).
C32_MergeExactlyWhenInWindow ==
    call.op = "heartbeat_merge" =>
        LET last == call.events1[1]
            next == call.events2[1]
        IN  /\ ret.events # <<>> <=>
                  /\ last.data = next.data
                  /\ last.timestamp <= next.timestamp
                  /\ next.timestamp <= last.timestamp + last.duration + call.arg * 1000
                  /\ last.duration >= 0
            /\ ret.events # <<>> =>
                  /\ ret.events[1].timestamp = last.timestamp
                  /\ ret.events[1].data = last.data
                  /\ ret.events[1].duration =
                        Longest(last.duration,
                                (next.timestamp - last.timestamp) + next.duration)

\* a heartbeat that starts after the last event ended, within the
\* pulsetime, was merged and stretched the event
C32_Witness ==
    /\ call.op = "heartbeat_merge"
    /\ ret.events # <<>>
    /\ call.events2[1].timestamp > call.events1[1].timestamp + call.events1[1].duration
    /\ ret.events[1].duration > call.events1[1].duration

\* the tuple of values (data[k] for k in keys) of an event; a key the data
\* lacks has no value
KeyTuple(event, keys) ==
    [i \in 1..Len(keys) |->
        IF keys[i] \in DOMAIN event.data THEN <<event.data[keys[i]]>> ELSE <<>>]

\* the places of the input events that have the tuple of the event at i
Group(events, keys, i) ==
    {j \in 1..Len(events) : KeyTuple(events[j], keys) = KeyTuple(events[i], keys)}

\* the places of the events that are the first of their group, in order
Firsts(events, keys) ==
    SelectSeq([i \in 1..Len(events) |-> i],
              LAMBDA i : \A j \in Group(events, keys, i) : i <= j)

\* sum of the durations of the events at the places of S
RECURSIVE GroupDuration(_, _)
GroupDuration(events, S) ==
    IF S = {} THEN 0
    ELSE LET i == CHOOSE i \in S : TRUE
         IN  events[i].duration + GroupDuration(events, S \ {i})

\* C33: merge_events_by_keys(events, keys) with non-empty keys returns one
\* event for each distinct tuple of values (data[k] for k in keys), in
\* order of first occurrence, with the timestamp of the first event of the
\* group and the sum of the group's durations.
C33_MergedIffSameTuple ==
    (call.op = "merge_events_by_keys" /\ Len(call.arg) >= 1) =>
        LET events == call.events1
            firsts == Firsts(events, call.arg)
        IN  /\ Len(ret.events) = Len(firsts)
            /\ \A n \in 1..Len(firsts) :
                  /\ ret.events[n].timestamp = events[firsts[n]].timestamp
                  /\ ret.events[n].duration =
                        GroupDuration(events, Group(events, call.arg, firsts[n]))

\* the subevents lists of the chunks, one after the other
RECURSIVE Subevents(_)
Subevents(chunks) ==
    IF chunks = <<>> THEN <<>>
    ELSE Head(chunks).data["subevents"] \o Subevents(Tail(chunks))

\* event follows prev in one chunk: same data[key], and the gap from the
\* end of prev to the start of event is less than pulsetime (seconds)
Chunked(prev, event, key, pulsetime) ==
    /\ prev.data[key] = event.data[key]
    /\ event.timestamp - (prev.timestamp + prev.duration) < pulsetime * 1000

\* C34: for events that all hold the key, chunk_events_by_key(events, key,
\* pulsetime) puts an event in the chunk of the event before it exactly when
\* both have the same data[key] and the gap between them is less than
\* pulsetime; the subevents lists of the chunks, one after the other, are
\* the list given.
C34_ChunkedByGap ==
    (/\ call.op = "chunk_events_by_key"
     /\ \A i \in 1..Len(call.events1) : call.events2[1] \in DOMAIN call.events1[i].data) =>
        LET key == call.events2[1]
        IN  /\ Subevents(ret.events) = call.events1
            /\ \A n \in 1..Len(ret.events) :
                  LET subevents == ret.events[n].data["subevents"]
                  IN  /\ Len(subevents) >= 1
                      /\ \A i \in 2..Len(subevents) :
                            Chunked(subevents[i - 1], subevents[i], key, call.arg)
                      /\ n > 1 =>
                            LET before == ret.events[n - 1].data["subevents"]
                            IN  ~Chunked(before[Len(before)], subevents[1], key, call.arg)

\* sum of the durations of an event list
RECURSIVE SumDurations(_)
SumDurations(events) ==
    IF events = <<>> THEN 0 ELSE Head(events).duration + SumDurations(Tail(events))

\* C24 as claimed: for every event list L and every pulsetime p >= 0, the
\* durations of heartbeat_reduce(L, p) sum to at least the sum of the
\* durations of L.
C24_ReduceKeepsDurationsAlways ==
    call.op = "heartbeat_reduce" =>
        SumDurations(ret.events) >= SumDurations(call.events1)

\* C24 amended: for every event list L in which no two events overlap each
\* other and every pulsetime p >= 0, the durations of heartbeat_reduce(L, p)
\* sum to at least the sum of the durations of L.
C24_ReduceKeepsDurations ==
    (call.op = "heartbeat_reduce" /\ Apart(call.events1)) =>
        SumDurations(ret.events) >= SumDurations(call.events1)

\* two heartbeats apart from each other were merged, the gap included
C24_Witness ==
    /\ call.op = "heartbeat_reduce"
    /\ Apart(call.events1)
    /\ Len(call.events1) = 2
    /\ Len(ret.events) = 1
    /\ call.events1[2].duration > 0
    /\ SumDurations(ret.events) > SumDurations(call.events1)

\* C25 as claimed: for every event list and every rule list, an event
\* returned by categorize has $category = ["Uncategorized"] iff no rule
\* matched it.
C25_UncategorizedIffNoMatchAlways ==
    call.op = "categorize" =>
        \A i \in 1..Len(ret.events) :
            ret.events[i].data["$category"] = Uncategorized
                <=> Matching(call.arg, call.events1[i]) = <<>>

\* the category paths of the rule list are real ones: not empty and not
\* the default itself
NamedCategories(classes) ==
    \A i \in 1..Len(classes) : classes[i][1] # <<>> /\ classes[i][1] # Uncategorized

\* C25 amended: for every event list and every rule list whose category
\* paths are non-empty and other than ["Uncategorized"], an event returned
\* by categorize has $category = ["Uncategorized"] iff no rule matched it.
C25_UncategorizedIffNoMatch ==
    (call.op = "categorize" /\ NamedCategories(call.arg)) =>
        \A i \in 1..Len(ret.events) :
            ret.events[i].data["$category"] = Uncategorized
                <=> Matching(call.arg, call.events1[i]) = <<>>

\* one event matched by a rule and one matched by none, in one call
C25_Witness ==
    /\ call.op = "categorize"
    /\ NamedCategories(call.arg)
    /\ Len(ret.events) = 2
    /\ ret.events[1].data["$category"] = <<"Work">>
    /\ Matching(call.arg, call.events1[1]) # <<>>
    /\ ret.events[2].data["$category"] = Uncategorized
    /\ Matching(call.arg, call.events1[2]) = <<>>

\* C26: every transform leaves its inputs unchanged: after the call each
\* input list has the same length and order, and each input event the same
\* timestamp, duration and data, as before the call.
C26_InputsUnchanged ==
    call.op \in {"filter_period_intersect", "period_union", "union_no_overlap",
                 "heartbeat_reduce", "categorize"} =>
        ret.args = <<call.events1, call.events2>>

-----------------------------------------------------------------------------
(* Claims on the aggregate queries                                         *)

\* the stored events get_most_used_apps counts, as the contract names them:
\* in the window, longer than 30 s, and not of AFK, the lock screen or the
\* login window
Counted(starttime, endtime) ==
    {r \in eventmodel :
        /\ starttime <= r.timestamp /\ r.timestamp <= endtime
        /\ r.duration > 30000
        /\ Lower(r.app) \notin {Lower(Afk), Lower(LockApp), Lower(LoginWindow)}}

\* C27: get_most_used_apps(start, end) returns exactly one row for each
\* application_name of the events in the window that last more than 30 s
\* and are not of AFK, the lock screen or the login window, and the row's
\* totalDuration is the sum in seconds of the durations of those events.
C27_MostUsedApps ==
    call.op = "get_most_used_apps" =>
        LET counted == Counted(call.starttime, call.endtime)
        IN  /\ \A row \in ret.value : \E r \in counted : r.application_name = row.app
            /\ \A r \in counted :
                  LET rows == {row \in ret.value : row.app = r.application_name}
                  IN  /\ Cardinality(rows) = 1
                      /\ \A row \in rows :
                            row.totalDuration =
                                SumSeconds({x \in counted :
                                               x.application_name = r.application_name})

\* two stored events of one application make one row of 80 s
C27_Witness ==
    /\ call.op = "get_most_used_apps"
    /\ Cardinality(Counted(call.starttime, call.endtime)) = 2
    /\ \E row \in ret.value : row.totalDuration = 80
    /\ Cardinality(ret.value) = 1

\* C30: get_non_sync_events returns exactly the stored events that the
\* dashboard-event filter admits (longer than 30 s, not of AFK, the lock
\* screen or the login window) and whose server_sync_status is 0.
C30_NonSyncIsUnsyncedDashboard ==
    call.op = "get_non_sync_events" =>
        ret.value = {r.id : r \in {x \in eventmodel :
                                      DashboardWhere(x) /\ x.server_sync_status = 0}}

-----------------------------------------------------------------------------
(* Claims on concurrent callers                                            *)

\* what the two heartbeats should add up to: the duration the cluster had
\* stored when the callers came in, and the two durations inserted
RaceSum ==
    SumSeconds(call.before) + (call.events[1].duration + call.events[2].duration) \div 1000

\* C29, the serialised executions: when two callers insert heartbeats of one
\* (application_name, title) inside the 70 s window and one caller's
\* insert_one reads and saves before the other reads, the cluster is left
\* as one row whose duration is the sum of the inserted durations.
C29_SerialisedCoalesce ==
    (RaceOver /\ ~call.overlapped /\ Cardinality(call.before) <= 1) =>
        /\ Cardinality(Cluster(eventmodel)) = 1
        /\ SumSeconds(Cluster(eventmodel)) = RaceSum

\* C29, the interleaving: both callers read before either saved, and the
\* cluster is left with less than the sum of the inserted durations or as
\* two rows.
C29_Witness ==
    /\ RaceOver
    /\ call.overlapped
    /\ Cardinality(call.before) <= 1
    /\ \/ SumSeconds(Cluster(eventmodel)) < RaceSum
       \/ Cardinality(Cluster(eventmodel)) = 2

-----------------------------------------------------------------------------
(* Claims on the schema migration                                          *)

\* table `after` is table `before` with nothing taken away or changed: the
\* columns of before are columns of after, and the rows of after, cut to
\* the columns of before, are the rows of before
Additive(before, after) ==
    /\ before.columns \subseteq after.columns
    /\ {[c \in before.columns |-> row[c]] : row \in after.rows} = before.rows

\* table `after` is table `before` if before has the column, else before with
\* the column holding the default in every row
Migrated(before, after, name, default) ==
    /\ Additive(before, after)
    /\ after.columns = before.columns \cup {name}
    /\ name \in before.columns => after = before
    /\ name \notin before.columns => \A row \in after.rows : row[name] = default

\* C35: auto_migrate adds bucketmodel.datastr (default "{}") and
\* eventmodel.server_sync_status (default 0) only when the column is
\* missing, takes away or changes no column and no row, and run again on
\* the migrated database changes nothing.
C35_MigrationAdditiveIdempotent ==
    (call # Idle /\ call.op = "auto_migrate") =>
        /\ Migrated(call.tables.bucketmodel, ret.value.bucketmodel, "datastr", "{}")
        /\ Migrated(call.tables.eventmodel, ret.value.eventmodel, "server_sync_status", 0)
        /\ AutoMigrateTables(ret.value) = ret.value

\* a file whose buckets were written without datastr and whose events carry
\* a sync status of their own was migrated
C35_Witness ==
    /\ call # Idle /\ call.op = "auto_migrate"
    /\ "datastr" \notin call.tables.bucketmodel.columns
    /\ call.tables.bucketmodel.rows # {}
    /\ "server_sync_status" \in call.tables.eventmodel.columns
    /\ \E row \in call.tables.eventmodel.rows : row["server_sync_status"] = 1
    /\ \A row \in ret.value.bucketmodel.rows : row["datastr"] = "{}"

-----------------------------------------------------------------------------
(* Claims on MemoryStorage                                                 *)

-----------------------------------------------------------------------------
(* Claims on the frame of the event operations                             *)

-----------------------------------------------------------------------------
(* Claims on counting                                                      *)

\* C38: on every backend, for every bucket and every window (start, end),
\* get_eventcount(bucket, start, end) is the number of events
\* get_events(bucket, limit < 0, start, end) returns.
C38_CountIsNumberOfEvents ==
    (call.op = "get_events" /\ call.limit < 0 /\ ret.exc = "") =>
        IF backend = "memory"
        THEN MemGetEventcount(call.bucket, call.starttime, call.endtime) = Len(ret.events)
        ELSE Len(ret.events) \in PeeweeGetEventcount(call.bucket, call.starttime, call.endtime)

-----------------------------------------------------------------------------
(* Claims on the logout                                                    *)

\* C39: after reset_user has run, neither cache entry init_db reads ("TTim"
\* for encrypted_db_key and email, "sundial" for user_key) still returns
\* the removed credentials.
C39_LogoutClearsCredentials ==
    call.op = "reset_user" =>
        /\ CacheUserCredentials(gate.ttim, gate.keyring) = NoCredentials
        /\ CacheUserCredentials(gate.sundial, gate.keyring) = NoCredentials

-----------------------------------------------------------------------------
(* Claims on the settings                                                  *)

\* C40: on an opened store, after every save_settings(code, value) the
\* cached settings map is what retrieve_all_settings reads from the settings
\* table, both when the code existed and when save_settings created it.
C40_SettingsCacheFresh ==
    call.op = "save_settings" =>
        gate.settings_cache = Cached(RetrieveAllSettings(gate.settings))

====
